---- MODULE Spec2Model ----
(***************************************************************************)
(* Model of the LCU connection supervisor, the selection writer and the    *)
(* skin resolver of src/src/main/lcu-client.ts (class LCUConnector).       *)
(*                                                                         *)
(* The session transport (HasagiClient of @hasagi/core) and the remote     *)
(* game client are the environment: an outstanding client.connect() call   *)
(* may succeed (the transport emits 'connected') or throw, an established  *)
(* transport may emit 'disconnected', and a request may return or throw.   *)
(*                                                                         *)
(* Three specifications share the module, one per component:               *)
(*   Spec        the connection supervisor                                 *)
(*   SpecSelect  selectSkin (the selection writer)                         *)
(*   SpecSkins   getChampionSkins (the skin resolver)                      *)
(***************************************************************************)
EXTENDS Integers, Sequences, FiniteSets, TLC

\* ------------------------------------------------------------------------
\* Bounds of the model
\* ------------------------------------------------------------------------

\* callbacks a caller may pass to connectWithRetry (0 is null)
NumCallbacks == 2
\* outstanding client.connect() calls of the retry loop the model follows
MaxInFlight == 2
\* outstanding liveness probes of isConnected()
MaxProbes == 2
\* interval timers alive at once that the model follows
MaxTimers == 2
\* outstanding client.connect() calls of the one-shot connect()
MaxConnects == 1
\* actions in a champion-select session, over all its action groups
MaxActions == 3
\* entries of a skin-carousel listing, parents and children together
MaxCarouselNodes == 3
\* entries of a champion's inventory data, skins and chromas together
MaxInventoryNodes == 4
\* entries of the myTeam list of a session payload
MaxTeam == 2
\* elements of the actions field of a session payload, over all its levels
MaxElements == 2
\* getChampionNameMap calls that may overlap
NumNameCalls == 2
\* updateStatus runs of the UI that the model lets be under way at once
MaxUpdates == 2
\* /api/status requests that the server may be handling at once
NumRequests == 2
NumStarts == 2
MaxListens == 2

VARIABLES
    \* ---- LCUConnector fields (lcu-client.ts:73-79)
    reconnectCallback,       \* 0 (null) or the stored callback
    lastConnectionState,     \* boolean
    connectionAttemptTimer,  \* 0 (null) or the handle of the retry interval
    isAttemptingConnection,  \* boolean: the in-flight-attempt guard
    \* ---- runtime and transport
    activeTimers,            \* handles of the interval timers that exist
    inFlight,                \* client.connect() calls of the retry loop not yet settled
    probes,                  \* isConnected() probe requests not yet settled
    connecting,              \* client.connect() calls of connect() not yet settled
    clientIsConnected,       \* HasagiClient.isConnected
    lcuUp,                   \* the game client is running and serves requests
    \* ---- observation of the last step
    supervised,              \* connectWithRetry was called and disconnect() not since
    stopped,                 \* disconnect() was called and connectWithRetry not since
    step,                    \* the operation or event that made the last step
    onReconnect,             \* the argument of connectWithRetry in the last step, or 0
    invoked,                 \* the callbacks the last step invoked, in order
    thrown,                  \* the error the last step threw to its caller, or null
    returned,                \* what isConnected() did in the last step: "none", or it
                             \* awaits its probe ("pending"), or it returned "true" or "false"
    before                   \* the supervisor's fields before the last step

supVars == <<reconnectCallback, lastConnectionState, connectionAttemptTimer,
             isAttemptingConnection, activeTimers, inFlight, probes,
             connecting, thrown, clientIsConnected, lcuUp, supervised, stopped, step, onReconnect, invoked, returned,
             before>>

VARIABLES
    \* ---- one selectSkin call (lcu-client.ts:559-616)
    selPc,         \* where the call is: idle, or the request it awaits, or how it ended
    selArgs,       \* its arguments championId, skinId, chromaId
    pickAction,    \* its local pickAction, once resolved
    writes,        \* the write requests it has issued, in order
    outcomes,      \* how the issued writes ended so far, in order
    selError,      \* the error it threw
    sessionSeen,   \* what the remote API answered to its session request
    pickSeen       \* the pick action of the local player in the session answered

selVars == <<selPc, selArgs, pickAction, writes, outcomes, selError, sessionSeen,
            pickSeen>>

VARIABLES
    \* ---- LCUConnector caches (lcu-client.ts:74-75)
    championMap,     \* null, or the cached champion id -> name map
    ddragonVersion,  \* "" (null), or the cached Data Dragon version
    \* ---- one getChampionSkins call (lcu-client.ts:400-546)
    skPc,            \* idle, or the request it awaits, or how it ended
    skChampionId,    \* its argument
    list,            \* its local list (the carousel listing) while in scope
    champion,        \* its local champion (the inventory data) once fetched
    championName,    \* its local championName
    skResult,        \* what it returned
    skSource,        \* the return statement that produced the result
    carouselSeen,    \* what the remote API answered to the carousel request
    providerSeen     \* what the metadata provider answered to the fetches of the call

skinVars == <<championMap, ddragonVersion, skPc, skChampionId, list, champion,
              championName, skResult, skSource, carouselSeen, providerSeen>>

VARIABLES
    \* ---- one call of a session reader (lcu-client.ts:295-321)
    session,       \* the session payload the caller passes
    \* ---- one call of getChampSelectSession or getReadyCheck
    answer,        \* what the remote API answers to the request of the call
    \* ---- both
    method,        \* the method that was called last
    completion     \* how that call ended: the value it returned, or its error

sessVars == <<session, answer, method, completion>>

VARIABLES
    \* ---- the getChampionNameMap calls under way (lcu-client.ts:343-387)
    namePc,        \* per call: idle, the fetch it awaits, or done
    nameVersion,   \* per call: its local version
    nameResult,    \* per call: the map it returned
    versionsFetch  \* how the last fetch of the version list ended, or "none"

nameVars == <<namePc, nameVersion, nameResult, versionsFetch>>

VARIABLES
    \* ---- the polling connector (lcu-connector.ts:45-51)
    credentials,            \* null, or the port and password in use
    pollReconnectCallback,  \* its reconnectCallback: 0 (null) or the stored callback
    pollInterval,           \* "none" (null), or the interval that runs: the one of
                            \* startPollingForInitialConnection or the one of startPolling
    \* ---- its environment
    platform,               \* process.platform
    processList,            \* what the process-list command gives now
    \* ---- observation of the last step
    pollWatched,            \* connectWithRetry was called and the caller has not
                            \* stopped the polling since
    pollStep,               \* the operation that made the last step
    pollInvoked,            \* the callbacks the last step invoked, in order
    pollReturned,           \* how the call of the last step ended, or null
    finds                   \* the findClientCredentials calls of the last step:
                            \* what the command gave and what the call returned

pollVars == <<credentials, pollReconnectCallback, pollInterval, platform, processList,
              pollWatched, pollStep, pollInvoked, pollReturned, finds>>

VARIABLES
    \* ---- SkinSelectorUI fields (renderer/client.ts:182-187)
    favoritesOnlyMode,   \* boolean
    currentChampionId,   \* 0 (null) or the champion id
    currentSkins,        \* the list: empty, the base skin only, or with other skins
    lockedIn,            \* boolean
    focusedChampionId,   \* 0 (null) or the champion id
    \* ---- the status monitor (renderer/client.ts:1198-1202)
    firstCheck,          \* the timeout of the first check has not fired yet
    updates              \* per updateStatus run: where it is and the status it got

uiVars == <<favoritesOnlyMode, currentChampionId, currentSkins, lockedIn,
            focusedChampionId, firstCheck, updates>>

VARIABLES
    \* ---- SkinSelectorServer fields (main/server.ts:367-370)
    lcu,                 \* 0 (null) or the LCUConnector instance
    clientConnected,     \* boolean
    \* ---- the runtime
    created,             \* the LCUConnector instances constructed so far
    flows                \* per flow (0: the listen callback of start(); r: a
                         \* /api/status request): where it is and the instances it used

srvVars == <<lcu, clientConnected, created, flows>>

VARIABLES
    \* ---- selectSkin calls that overlap, and the game client they write to
    applyCalls,      \* per call: the record of the call (as Sel)
    selectedSkinId,  \* the game client's my-selection: selectedSkinId
    selections       \* the my-selection writes the game client applied, in
                     \* order, as <<call, selectedSkinId>>

applyVars == <<applyCalls, selectedSkinId, selections>>

VARIABLES
    \* ---- a POST /api/select-skin request (server.ts:482-503)
    routePc,        \* idle, the await it is at, or done
    routeBody,      \* req.body
    routeReported,  \* what the connector reported to the request
    routeStatus,    \* the status of the response, 0 before it is sent
    routeCalls      \* the arguments of the selectSkin calls the request made

routeVars == <<routePc, routeBody, routeReported, routeStatus, routeCalls>>

VARIABLES
    \* ---- SkinSelectorServer.start (server.ts:723-778)
    server,          \* this.server: 0 (undefined) or the http server
    serverStarting,  \* this.serverStarting: 0 (null) or the call whose promise it is
    listening,       \* the http server is bound: address() is not null
    closing,         \* server.close() was called and its callback has not run
    boundPort,       \* the port of address(), 0 while there is none
    listens,         \* how many times app.listen was called
    starts,          \* per start() call: where it is and what it returned
    undisturbed      \* no listen error and no shutdown so far

startVars == <<server, serverStarting, listening, closing, boundPort, listens, starts, undisturbed>>

vars == <<supVars, applyVars, routeVars, startVars, selVars, skinVars, sessVars, nameVars, pollVars, uiVars, srvVars>>

\* ------------------------------------------------------------------------
\* Values that are returned and thrown
\* ------------------------------------------------------------------------

\* null, where a record or nothing is expected
Null == [null |-> TRUE]

\* Values a request can throw: LCUError carries the HTTP status code; the
\* transport may also throw a plain Error or reject with a value that is no
\* Error.
LCUError(code, msg) == [cls |-> "LCUError", statusCode |-> code, message |-> msg]
PlainError(msg) == [cls |-> "Error", message |-> msg]
ThrownString(str) == [cls |-> "string", value |-> str]

Thrown ==
    {LCUError(404, "Not Found"), LCUError(500, "Internal Server Error"),
     PlainError("connect ECONNREFUSED"), ThrownString("aborted")}

\* getErrorMessage (shared/errors.ts): the message of an Error, else
\* String(error).
GetErrorMessage(error) ==
    IF error.cls \in {"Error", "LCUError"} THEN error.message ELSE error.value

\* ------------------------------------------------------------------------
\* Connection supervisor (lcu-client.ts:95-254)
\* ------------------------------------------------------------------------

Callbacks == 1..NumCallbacks

\* The supervisor's fields as one record, so that a handler is a function
\* from the state before it to the state after it.
Sup ==
    [reconnectCallback |-> reconnectCallback,
     lastConnectionState |-> lastConnectionState,
     connectionAttemptTimer |-> connectionAttemptTimer,
     isAttemptingConnection |-> isAttemptingConnection,
     activeTimers |-> activeTimers,
     inFlight |-> inFlight,
     invoked |-> <<>>,
     returned |-> "none",
     thrown |-> Null]

SetSup(s) ==
    /\ reconnectCallback' = s.reconnectCallback
    /\ lastConnectionState' = s.lastConnectionState
    /\ connectionAttemptTimer' = s.connectionAttemptTimer
    /\ isAttemptingConnection' = s.isAttemptingConnection
    /\ activeTimers' = s.activeTimers
    /\ inFlight' = s.inFlight
    /\ invoked' = s.invoked
    /\ returned' = s.returned
    /\ thrown' = s.thrown
    /\ before' = Sup
    /\ UNCHANGED <<applyVars, routeVars, startVars, selVars, skinVars, sessVars, nameVars, pollVars, uiVars, srvVars>>

\* The model follows a step only while its counters stay within the bounds.
Bounded(s) ==
    /\ s.inFlight <= MaxInFlight
    /\ Cardinality(s.activeTimers) <= MaxTimers

\* setInterval: a fresh handle, the timer exists from now on.
NewTimerId(active) ==
    CHOOSE i \in 1..(MaxTimers + 1) :
        /\ i \notin active
        /\ \A j \in 1..(i - 1) : j \in active

SetInterval(s) ==
    LET id == NewTimerId(s.activeTimers)
    IN  [s EXCEPT !.activeTimers = @ \cup {id}, !.connectionAttemptTimer = id]

\* clearInterval(t)
ClearInterval(s, t) == [s EXCEPT !.activeTimers = @ \ {t}]

\* attemptConnection up to its await: one more client.connect() outstanding.
AttemptConnection(s) == [s EXCEPT !.inFlight = @ + 1]

\* startConnectionRetries
StartConnectionRetries(s) ==
    IF s.isAttemptingConnection
    THEN s
    ELSE LET s1 == AttemptConnection([s EXCEPT !.isAttemptingConnection = TRUE])
             s2 == IF s1.connectionAttemptTimer # 0
                   THEN ClearInterval(s1, s1.connectionAttemptTimer)
                   ELSE s1
         IN  SetInterval(s2)

\* A variant of the interval callback for the check of C12: it attempts only
\* while the guard is clear.
TimerCallbackUnlessAttempting(s) ==
    IF ~s.lastConnectionState /\ ~s.isAttemptingConnection
    THEN AttemptConnection(s) ELSE s

\* What client.connect() can throw.
ConnectErrors ==
    {PlainError("League Client not found"), ThrownString("aborted")}

\* A variant of the catch of attemptConnection for the check of C21: the
\* error is thrown on.
AttemptCatchRethrows(s, error) == [s EXCEPT !.thrown = error]

\* The catch of attemptConnection (lines 141-143): the error is logged.
AttemptCatch(s, error) == s

\* The catch of connect (lines 211-213): wrap and rethrow.
ConnectCatch(s, error) ==
    [s EXCEPT !.thrown =
        [message |-> <<"Failed to connect to League Client: ", GetErrorMessage(error)>>,
         cause |-> error]]

\* The body of the interval callback.
TimerCallback(s) ==
    IF ~s.lastConnectionState THEN AttemptConnection(s) ELSE s

\* A variant of the 'connected' handler for the check of C1: the callback is
\* invoked inside the block that clears the retry timer.
ConnectedHandlerCallbackInTimerBlock(s) ==
    LET s1 == [s EXCEPT !.lastConnectionState = TRUE,
                        !.isAttemptingConnection = FALSE]
    IN  IF s1.connectionAttemptTimer # 0
        THEN LET s2 == [ClearInterval(s1, s1.connectionAttemptTimer)
                            EXCEPT !.connectionAttemptTimer = 0]
             IN  IF s2.reconnectCallback # 0
                 THEN [s2 EXCEPT !.invoked = Append(@, s2.reconnectCallback)]
                 ELSE s2
        ELSE s1

\* A variant of the 'connected' handler for the check of C31: the handle is
\* forgotten without clearInterval.
ConnectedHandlerDropsHandle(s) ==
    LET s1 == [s EXCEPT !.lastConnectionState = TRUE,
                        !.isAttemptingConnection = FALSE,
                        !.connectionAttemptTimer = 0]
    IN  IF s1.reconnectCallback # 0
        THEN [s1 EXCEPT !.invoked = Append(@, s1.reconnectCallback)]
        ELSE s1

\* client.on("connected", ...)
ConnectedHandler(s) ==
    LET s1 == [s EXCEPT !.lastConnectionState = TRUE,
                        !.isAttemptingConnection = FALSE]
        s2 == IF s1.connectionAttemptTimer # 0
              THEN [ClearInterval(s1, s1.connectionAttemptTimer)
                        EXCEPT !.connectionAttemptTimer = 0]
              ELSE s1
    IN  IF s2.reconnectCallback # 0
        THEN [s2 EXCEPT !.invoked = Append(@, s2.reconnectCallback)]
        ELSE s2

\* client.on("disconnected", ...)
DisconnectedHandler(s) ==
    StartConnectionRetries([s EXCEPT !.lastConnectionState = FALSE])

\* A variant of stopPolling for the check of C10: the handle is dropped
\* without clearInterval.
StopPollingKeepsTimer(s) ==
    [s EXCEPT !.connectionAttemptTimer = 0, !.isAttemptingConnection = FALSE]

\* A variant of stopPolling for the check of C33: the timer is cleared and
\* the guard is left as it was.
StopPollingKeepsGuard(s) ==
    IF s.connectionAttemptTimer # 0
    THEN [ClearInterval(s, s.connectionAttemptTimer)
              EXCEPT !.connectionAttemptTimer = 0]
    ELSE s

\* stopPolling
StopPolling(s) ==
    LET s1 == IF s.connectionAttemptTimer # 0
              THEN [ClearInterval(s, s.connectionAttemptTimer)
                        EXCEPT !.connectionAttemptTimer = 0]
              ELSE s
    IN  [s1 EXCEPT !.isAttemptingConnection = FALSE]

\* disconnect
DisconnectOp(s) ==
    [StopPolling(s) EXCEPT !.reconnectCallback = 0,
                           !.lastConnectionState = FALSE]

\* A variant of connectWithRetry for the check of C29: the callback is stored
\* only when the call starts the loop.
ConnectWithRetryKeepsCallback(s, cb) ==
    IF s.isAttemptingConnection THEN s
    ELSE StartConnectionRetries([s EXCEPT !.reconnectCallback = cb])

\* connectWithRetry(onReconnect)
ConnectWithRetryOp(s, cb) ==
    StartConnectionRetries([s EXCEPT !.reconnectCallback = cb])

\* A variant of isConnected for the check of C14: the state the transport
\* reports is trusted, no probe is sent.
IsConnectedStartTrustsTransport(s, transportConnected) ==
    IF ~transportConnected
    THEN [s EXCEPT !.lastConnectionState = FALSE, !.returned = "false"]
    ELSE [s EXCEPT !.lastConnectionState = TRUE, !.returned = "true"]

\* isConnected up to its await (lines 164-177): false at once when the
\* transport does not report connected, else the probe request is sent.
IsConnectedStart(s, transportConnected) ==
    IF ~transportConnected
    THEN [s EXCEPT !.lastConnectionState = FALSE, !.returned = "false"]
    ELSE [s EXCEPT !.returned = "pending"]

\* A variant of the catch branch for the check of C13: the retry loop is
\* started anew whatever the guard says.
ProbeCatchRestarts(s) ==
    LET s1 == StartConnectionRetries([s EXCEPT !.isAttemptingConnection = FALSE])
    IN  [s1 EXCEPT !.lastConnectionState = FALSE]

\* The catch branch of isConnected.
ProbeCatch(s) ==
    LET s1 == IF ~s.isAttemptingConnection THEN StartConnectionRetries(s) ELSE s
    IN  [s1 EXCEPT !.lastConnectionState = FALSE]

\* How the race of the probe request with the timeout can end: the request
\* returns a summoner, returns a falsy value, or the request throws or the
\* timeout rejects first.
ProbeOutcomes == {"value", "empty", "throw"}

\* isConnected from the end of the race to its return (lines 179-190).
IsConnectedOnProbe(s, outcome) ==
    CASE outcome = "value" -> [s EXCEPT !.lastConnectionState = TRUE, !.returned = "true"]
      [] outcome = "empty" -> [s EXCEPT !.returned = "false"]
      [] outcome = "throw" -> [ProbeCatch(s) EXCEPT !.returned = "false"]

\* ---- actions

ConnectWithRetry(cb) ==
    LET n == ConnectWithRetryOp(Sup, cb)
    IN  /\ Bounded(n)
        /\ SetSup(n)
        /\ step' = "connectWithRetry"
        /\ onReconnect' = cb
        /\ supervised' = TRUE
        /\ stopped' = FALSE
        /\ UNCHANGED <<probes, connecting, clientIsConnected, lcuUp>>

Disconnect ==
    /\ SetSup(DisconnectOp(Sup))
    /\ step' = "disconnect"
    /\ onReconnect' = 0
    /\ supervised' = FALSE
    /\ stopped' = TRUE
    /\ UNCHANGED <<probes, connecting, clientIsConnected, lcuUp>>

\* A tick of an interval timer that exists.
TimerTick ==
    \E t \in activeTimers :
        LET n == TimerCallback(Sup)
        IN  /\ Bounded(n)
            /\ SetSup(n)
            /\ step' = "tick"
            /\ onReconnect' = 0
            /\ UNCHANGED <<probes, connecting, clientIsConnected, lcuUp, supervised, stopped>>

\* An outstanding client.connect() of the retry loop succeeds: the transport
\* emits 'connected', then the await in attemptConnection resumes.
AttemptSucceeds ==
    /\ inFlight > 0
    /\ lcuUp
    /\ LET s1 == ConnectedHandler([Sup EXCEPT !.inFlight = @ - 1])
       IN  SetSup([s1 EXCEPT !.isAttemptingConnection = FALSE])
    /\ clientIsConnected' = TRUE
    /\ step' = "connected"
    /\ onReconnect' = 0
    /\ UNCHANGED <<probes, connecting, lcuUp, supervised, stopped>>

\* An outstanding client.connect() of the retry loop throws: the catch logs.
AttemptFails ==
    /\ inFlight > 0
    /\ \E error \in ConnectErrors :
          SetSup(AttemptCatch([Sup EXCEPT !.inFlight = @ - 1], error))
    /\ step' = "attemptFailed"
    /\ onReconnect' = 0
    /\ UNCHANGED <<probes, connecting, clientIsConnected, lcuUp, supervised, stopped>>

\* The transport loses its connection and emits 'disconnected'.
TransportDisconnected ==
    /\ clientIsConnected
    /\ LET n == DisconnectedHandler(Sup)
       IN  /\ Bounded(n)
           /\ SetSup(n)
    /\ clientIsConnected' = FALSE
    /\ step' = "disconnected"
    /\ onReconnect' = 0
    /\ UNCHANGED <<probes, connecting, lcuUp, supervised, stopped>>

\* isConnected() up to its await.
IsConnectedCall ==
    LET n == IsConnectedStart(Sup, clientIsConnected)
    IN  /\ probes' = IF n.returned = "pending" THEN probes + 1 ELSE probes
        /\ probes' <= MaxProbes
        /\ SetSup(n)
        /\ step' = "isConnected"
        /\ onReconnect' = 0
        /\ UNCHANGED <<connecting, clientIsConnected, lcuUp, supervised, stopped>>

\* The probe request returns a summoner: isConnected returns true.
ProbeReturns ==
    /\ probes > 0
    /\ lcuUp
    /\ probes' = probes - 1
    /\ SetSup(IsConnectedOnProbe(Sup, "value"))
    /\ step' = "probeTrue"
    /\ onReconnect' = 0
    /\ UNCHANGED <<connecting, clientIsConnected, lcuUp, supervised, stopped>>

\* The probe request returns nothing (a falsy value): isConnected returns
\* false and writes no field.
ProbeReturnsEmpty ==
    /\ probes > 0
    /\ lcuUp
    /\ probes' = probes - 1
    /\ SetSup(IsConnectedOnProbe(Sup, "empty"))
    /\ step' = "probeEmpty"
    /\ onReconnect' = 0
    /\ UNCHANGED <<connecting, clientIsConnected, lcuUp, supervised, stopped>>

\* The probe request throws or the timeout wins the race.
ProbeFails ==
    /\ probes > 0
    /\ probes' = probes - 1
    /\ LET n == IsConnectedOnProbe(Sup, "throw")
       IN  /\ Bounded(n)
           /\ SetSup(n)
    /\ step' = "probeFailed"
    /\ onReconnect' = 0
    /\ UNCHANGED <<connecting, clientIsConnected, lcuUp, supervised, stopped>>

\* The game client starts or exits.
LcuStarts ==
    /\ ~lcuUp
    /\ lcuUp' = TRUE
    /\ SetSup(Sup)
    /\ step' = "lcuStarts"
    /\ onReconnect' = 0
    /\ UNCHANGED <<probes, connecting, clientIsConnected, supervised, stopped>>

LcuExits ==
    /\ lcuUp
    /\ lcuUp' = FALSE
    /\ SetSup(Sup)
    /\ step' = "lcuExits"
    /\ onReconnect' = 0
    /\ UNCHANGED <<probes, connecting, clientIsConnected, supervised, stopped>>

\* connect() up to its await: one more one-shot client.connect() outstanding.
ConnectCall ==
    /\ connecting < MaxConnects
    /\ connecting' = connecting + 1
    /\ SetSup(Sup)
    /\ step' = "connect"
    /\ onReconnect' = 0
    /\ UNCHANGED <<probes, clientIsConnected, lcuUp, supervised, stopped>>

\* The client.connect() of a connect() succeeds: the transport emits
\* 'connected' (the handler of the supervisor runs), connect() returns true.
ConnectSucceeds ==
    /\ connecting > 0
    /\ lcuUp
    /\ connecting' = connecting - 1
    /\ SetSup(ConnectedHandler(Sup))
    /\ clientIsConnected' = TRUE
    /\ step' = "connected"
    /\ onReconnect' = 0
    /\ UNCHANGED <<probes, lcuUp, supervised, stopped>>

\* The client.connect() of a connect() throws: connect() wraps and rethrows.
ConnectFails ==
    /\ connecting > 0
    /\ connecting' = connecting - 1
    /\ \E error \in ConnectErrors : SetSup(ConnectCatch(Sup, error))
    /\ step' = "connectFailed"
    /\ onReconnect' = 0
    /\ UNCHANGED <<probes, clientIsConnected, lcuUp, supervised, stopped>>

SupInit ==
    /\ reconnectCallback = 0
    /\ lastConnectionState = FALSE
    /\ connectionAttemptTimer = 0
    /\ isAttemptingConnection = FALSE
    /\ activeTimers = {}
    /\ inFlight = 0
    /\ probes = 0
    /\ clientIsConnected = FALSE
    /\ lcuUp \in BOOLEAN
    /\ supervised = FALSE
    /\ stopped = FALSE
    /\ step = "init"
    /\ onReconnect = 0
    /\ invoked = <<>>
    /\ returned = "none"
    /\ thrown = Null
    /\ connecting = 0
    /\ before = Sup

SupNext ==
    \/ \E cb \in 0..NumCallbacks : ConnectWithRetry(cb)
    \/ Disconnect
    \/ TimerTick
    \/ AttemptSucceeds
    \/ AttemptFails
    \/ TransportDisconnected
    \/ IsConnectedCall
    \/ ProbeReturns
    \/ ProbeReturnsEmpty
    \/ ProbeFails
    \/ LcuStarts
    \/ LcuExits
    \/ ConnectCall
    \/ ConnectSucceeds
    \/ ConnectFails


\* ------------------------------------------------------------------------
\* Values of the remote API
\* ------------------------------------------------------------------------

\* A variant of isNotFoundError for the check of C19: every error of the
\* remote API counts as not found.
IsNotFoundErrorAnyStatus(error) == error.cls = "LCUError"

\* isNotFoundError
IsNotFoundError(error) == error.cls = "LCUError" /\ error.statusCode = 404

\* ---- champion-select sessions

CellIds == {0, 1}
ActionTypes == {"pick", "ban"}
ActionKinds == [actorCellId : CellIds, type : ActionTypes, completed : BOOLEAN]

\* The nested action lists with at most n actions in all, without their ids.
RECURSIVE NestedActions(_)
NestedActions(n) ==
    {<<>>} \cup
    UNION {{<<g>> \o rest : g \in [1..k -> ActionKinds], rest \in NestedActions(n - k)} :
           k \in 1..n}

\* A JSON array, and a value that is no array (missing, or of another type).
ArrayOf(items) == [isArray |-> TRUE, items |-> items]
NotAnArray == [isArray |-> FALSE]

\* Array.isArray(x)
IsArray(x) == "isArray" \in DOMAIN x /\ x.isArray

RECURSIVE Flat(_)
\* Array.prototype.flat(): the elements that are arrays are spread by one
\* level, every other element stays.
Flat(items) ==
    IF items = <<>> THEN <<>>
    ELSE (IF IsArray(Head(items)) THEN Head(items).items ELSE <<Head(items)>>)
            \o Flat(Tail(items))

\* An element that is an action object (it carries an actorCellId).
IsActionObject(x) == "actorCellId" \in DOMAIN x

\* The remote client numbers the actions of a session by their position;
\* ids are unique. Elements that are no action objects carry no id.
Numbered(items) ==
    LET Tag(x, k) == IF IsActionObject(x) THEN x @@ [id |-> k] ELSE x
    IN  [g \in 1..Len(items) |->
            LET offset == 100 + Len(Flat(SubSeq(items, 1, g - 1)))
            IN  IF IsArray(items[g])
                THEN ArrayOf([a \in 1..Len(items[g].items) |->
                                 Tag(items[g].items[a], offset + a)])
                ELSE Tag(items[g], offset + 1)]

\* The action groups of a well-formed session, numbered.
WithIds(groups) == Numbered([g \in 1..Len(groups) |-> ArrayOf(groups[g])])

Sessions ==
    [localPlayerCellId : CellIds,
     actions : {ArrayOf(WithIds(groups)) : groups \in NestedActions(MaxActions)}
                   \cup {NotAnArray}]

\* How a call ends: it returns a value or throws an error.
Returns(value) == [ok |-> TRUE, value |-> value]
Throws(error) == [ok |-> FALSE, error |-> error]

\* The TypeError of a property access on null or undefined.
TypeError(property) ==
    [cls |-> "Error",
     message |-> <<"Cannot read properties of null, reading ", property>>]

\* A variant of getLocalPlayerPickAction for the check of C16: the type of
\* the action is not tested.
GetLocalPlayerPickActionAnyType(payload) ==
    IF payload = Null \/ ~IsArray(payload.actions)
    THEN Returns(Null)
    ELSE LET actions == Flat(payload.actions.items)
             stops == {i \in 1..Len(actions) :
                          \/ actions[i] = Null
                          \/ /\ IsActionObject(actions[i])
                             /\ actions[i].actorCellId = payload.localPlayerCellId}
         IN  IF stops = {} THEN Returns(Null)
             ELSE LET first == actions[CHOOSE i \in stops : \A j \in stops : i <= j]
                  IN  IF first = Null THEN Throws(TypeError("actorCellId"))
                      ELSE Returns(first)

\* getLocalPlayerPickAction: find() visits the flattened elements in order
\* and stops at the first that matches; reading actorCellId of an element
\* that is null throws, an element without the properties does not match.
GetLocalPlayerPickAction(payload) ==
    IF payload = Null \/ ~IsArray(payload.actions)
    THEN Returns(Null)
    ELSE LET actions == Flat(payload.actions.items)
             stops == {i \in 1..Len(actions) :
                          \/ actions[i] = Null
                          \/ /\ IsActionObject(actions[i])
                             /\ actions[i].actorCellId = payload.localPlayerCellId
                             /\ actions[i].type = "pick"}
         IN  IF stops = {} THEN Returns(Null)
             ELSE LET first == actions[CHOOSE i \in stops : \A j \in stops : i <= j]
                  IN  IF first = Null THEN Throws(TypeError("actorCellId"))
                      ELSE Returns(first)

\* getChampSelectSession: what it returns or throws for a reply of the remote
\* API. A reply is [ok |-> TRUE, value |-> session] or [ok |-> FALSE, error |-> e].
GetChampSelectSession(reply) ==
    IF reply.ok THEN Returns(reply.value)
    ELSE IF IsNotFoundError(reply.error) THEN Returns(Null)
    ELSE Throws(reply.error)

SessionReplies ==
    {[ok |-> TRUE, value |-> payload] : payload \in Sessions \cup {Null}}
        \cup {[ok |-> FALSE, error |-> e] : e \in Thrown}

\* What a reply to the session request says, read off the reply itself: no
\* session (a 404, or an empty answer), a session without or with a pick
\* action of the local player, or a failure of the request.
HasLocalPick(payload) ==
    /\ payload.actions.isArray
    /\ \E g \in 1..Len(payload.actions.items) :
          \E a \in 1..Len(payload.actions.items[g].items) :
              /\ payload.actions.items[g].items[a].actorCellId = payload.localPlayerCellId
              /\ payload.actions.items[g].items[a].type = "pick"

Classify(reply) ==
    IF ~reply.ok
    THEN IF reply.error.cls = "LCUError" /\ reply.error.statusCode = 404
         THEN "absent" ELSE "error"
    ELSE IF reply.value = Null THEN "absent"
    ELSE IF HasLocalPick(reply.value) THEN "hasPickAction"
    ELSE "noPickAction"

\* The pick action of the local player in the session of a reply, read off the
\* reply itself; Null when there is no session or no such action.
LocalPickOf(reply) ==
    IF Classify(reply) # "hasPickAction" THEN Null
    ELSE LET items == reply.value.actions.items
             picks == {<<g, a>> \in (1..Len(items)) \X (1..MaxActions) :
                          /\ a <= Len(items[g].items)
                          /\ items[g].items[a].actorCellId = reply.value.localPlayerCellId
                          /\ items[g].items[a].type = "pick"}
             first == CHOOSE pos \in picks :
                         \A other \in picks :
                            \/ pos[1] < other[1]
                            \/ pos[1] = other[1] /\ pos[2] <= other[2]
         IN  items[first[1]].items[first[2]]

\* ------------------------------------------------------------------------
\* Session readers (lcu-client.ts:295-321)
\* ------------------------------------------------------------------------

\* A value that is present, where null is possible too.
Some(v) == [some |-> v]

\* championId 0: the player has no champion yet.
TeamChampionIds == {0, 1, 2}
TeamMembers == [cellId : CellIds, championId : TeamChampionIds]

\* The myTeam lists with at most n entries.
RECURSIVE Teams(_)
Teams(n) ==
    IF n = 0 THEN {<<>>}
    ELSE Teams(n - 1) \cup {Append(t, m) : t \in {u \in Teams(n - 1) : Len(u) = n - 1},
                                            m \in TeamMembers}

\* myTeam: a list of members, or missing.
MyTeams == {Null} \cup {ArrayOf(t) : t \in Teams(MaxTeam)}

\* An action object of a payload: completed may be omitted.
ActionObjects == ActionKinds \cup [actorCellId : CellIds, type : ActionTypes]

\* A value that is neither null, nor an array, nor an action object.
Primitive == [primitive |-> TRUE]

\* The arrays an actions field can hold, with at most n elements over both
\* levels: its elements are groups (arrays of action objects or nulls),
\* and also action objects, nulls and primitives that stand where a group
\* should.
RECURSIVE ActionsShapes(_)
ActionsShapes(n) ==
    IF n = 0 THEN {<<>>}
    ELSE {<<>>}
         \cup {<<e>> \o rest : e \in ActionObjects \cup {Null, Primitive, ArrayOf(<<>>)},
                                rest \in ActionsShapes(n - 1)}
         \cup UNION {{<<ArrayOf(g)>> \o rest :
                          g \in [1..k -> ActionObjects \cup {Null}],
                          rest \in ActionsShapes(n - k)} : k \in 1..n}

\* The session payloads a reader is called with: none, payloads with a
\* myTeam, and payloads with an actions field.
SessionPayloads ==
    {Null}
      \cup {[localPlayerCellId |-> c, myTeam |-> t, actions |-> NotAnArray] :
                c \in CellIds, t \in MyTeams}
      \cup {[localPlayerCellId |-> c, myTeam |-> Null, actions |-> ArrayOf(Numbered(v))] :
                c \in CellIds, v \in ActionsShapes(MaxElements)}

\* A variant of getSelectedChampionFromSession for the check of C15: the
\* first member of the team is taken.
GetSelectedChampionFromSessionFirstMember(payload) ==
    IF payload = Null THEN Returns(Null)
    ELSE LET myTeam == IF payload.myTeam = Null THEN <<>> ELSE payload.myTeam.items
         IN  IF myTeam = <<>> THEN Returns(Null)
             ELSE Returns(Some(myTeam[1].championId))

\* getSelectedChampionFromSession
GetSelectedChampionFromSession(payload) ==
    IF payload = Null THEN Returns(Null)
    ELSE LET localPlayerCellId == payload.localPlayerCellId
             myTeam == IF payload.myTeam = Null THEN <<>> ELSE payload.myTeam.items
             hits == {i \in 1..Len(myTeam) : myTeam[i].cellId = localPlayerCellId}
         IN  IF hits = {} THEN Returns(Null)
             ELSE Returns(Some(myTeam[CHOOSE i \in hits : \A j \in hits : i <= j].championId))

\* A variant of isLocalPlayerLockedIn for the check of C17: an action counts
\* as locked in unless completed is false.
IsLocalPlayerLockedInUnlessFalse(payload) ==
    LET found == GetLocalPlayerPickAction(payload)
    IN  IF ~found.ok THEN found
        ELSE Returns(Some(/\ found.value # Null
                          /\ ("completed" \in DOMAIN found.value => found.value.completed)))

\* isLocalPlayerLockedIn: !!action && action.completed === true
IsLocalPlayerLockedIn(payload) ==
    LET found == GetLocalPlayerPickAction(payload)
    IN  IF ~found.ok THEN found
        ELSE Returns(Some(/\ found.value # Null
                          /\ "completed" \in DOMAIN found.value
                          /\ found.value.completed = TRUE))

\* ---- actions

GetSelectedChampionFromSessionCall ==
    /\ method' = "getSelectedChampionFromSession"
    /\ completion' = GetSelectedChampionFromSession(session)
    /\ UNCHANGED <<session, answer, supVars, applyVars, routeVars, startVars, selVars, skinVars, nameVars, pollVars, uiVars, srvVars>>

GetLocalPlayerPickActionCall ==
    /\ method' = "getLocalPlayerPickAction"
    /\ completion' = GetLocalPlayerPickAction(session)
    /\ UNCHANGED <<session, answer, supVars, applyVars, routeVars, startVars, selVars, skinVars, nameVars, pollVars, uiVars, srvVars>>

IsLocalPlayerLockedInCall ==
    /\ method' = "isLocalPlayerLockedIn"
    /\ completion' = IsLocalPlayerLockedIn(session)
    /\ UNCHANGED <<session, answer, supVars, applyVars, routeVars, startVars, selVars, skinVars, nameVars, pollVars, uiVars, srvVars>>

\* No method was called.
SessIdle ==
    /\ method = "none"
    /\ completion = Null

SessInit ==
    /\ session = Null
    /\ answer = Null
    /\ SessIdle

SessNext ==
    \/ GetSelectedChampionFromSessionCall
    \/ GetLocalPlayerPickActionCall
    \/ IsLocalPlayerLockedInCall

\* ------------------------------------------------------------------------
\* Reads that may find nothing: getChampSelectSession, getReadyCheck
\* (lcu-client.ts:281-290, 629-638)
\* ------------------------------------------------------------------------

SessionPath == "/lol-champ-select/v1/session"
ReadyCheckPath == "/lol-matchmaking/v1/ready-check"

\* ReadyCheckState, with or without playerResponse
ReadyChecks ==
    [state : {"Invalid", "InProgress", "EveryoneReady"},
     playerResponse : {"None", "Accepted", "Declined"}]
        \cup [state : {"Invalid", "InProgress", "EveryoneReady"}]

\* The status codes the remote API answers a failed request with.
StatusCodes == {400, 403, 404, 500, 503}

\* What a get request can throw: an error of the remote API with its status
\* code, or a failure of the transport.
ReadErrors ==
    {LCUError(code, "request failed") : code \in StatusCodes}
        \cup {PlainError("connect ECONNREFUSED"), PlainError("socket hang up"),
               ThrownString("aborted")}

\* The answers to the get request of a path.
Answers(path, values) ==
    {[path |-> path, ok |-> TRUE, value |-> v] : v \in values \cup {Null}}
        \cup {[path |-> path, ok |-> FALSE, error |-> e] : e \in ReadErrors}

ReadAnswers ==
    Answers(SessionPath, SessionPayloads) \cup Answers(ReadyCheckPath, ReadyChecks)

\* getReadyCheck: what it returns or throws for an answer of the remote API.
GetReadyCheck(reply) ==
    IF reply.ok THEN Returns(reply.value)
    ELSE IF IsNotFoundError(reply.error) THEN Returns(Null)
    ELSE Throws(reply.error)

\* ---- actions

GetChampSelectSessionCall ==
    /\ answer # Null
    /\ answer.path = SessionPath
    /\ method' = "getChampSelectSession"
    /\ completion' = GetChampSelectSession(answer)
    /\ UNCHANGED <<session, answer, supVars, applyVars, routeVars, startVars, selVars, skinVars, nameVars, pollVars, uiVars, srvVars>>

GetReadyCheckCall ==
    /\ answer # Null
    /\ answer.path = ReadyCheckPath
    /\ method' = "getReadyCheck"
    /\ completion' = GetReadyCheck(answer)
    /\ UNCHANGED <<session, answer, supVars, applyVars, routeVars, startVars, selVars, skinVars, nameVars, pollVars, uiVars, srvVars>>

ReadNext ==
    \/ GetChampSelectSessionCall
    \/ GetReadyCheckCall

\* ------------------------------------------------------------------------
\* Selection writer: selectSkin (lcu-client.ts:559-616)
\* ------------------------------------------------------------------------

ChampionIds == {1, 2}
SelSkinIds == {1001, 1002}
SelChromaIds == {1011, 1012}
\* chromaId null (the ids of the remote API are positive)
NoChroma == 0

SelArgs == [championId : ChampionIds, skinId : SelSkinIds,
            chromaId : SelChromaIds \cup {NoChroma}]

\* The record of a call, so that each continuation is a function on it.
Sel ==
    [pc |-> selPc, args |-> selArgs, pickAction |-> pickAction,
     writes |-> writes, outcomes |-> outcomes, error |-> selError]

SetSel(c) ==
    /\ selPc' = c.pc
    /\ selArgs' = c.args
    /\ pickAction' = c.pickAction
    /\ writes' = c.writes
    /\ outcomes' = c.outcomes
    /\ selError' = c.error
    /\ UNCHANGED <<supVars, applyVars, routeVars, startVars, skinVars, sessVars, nameVars, pollVars, uiVars, srvVars>>

\* The three write requests (lines 572-583, 591-595 and 604-608, 597-601).
PatchAction(c) ==
    [method |-> "patch", path |-> "/lol-champ-select/v1/session/actions/{id}",
     id |-> c.pickAction.id,
     body |-> [id |-> c.pickAction.id,
               actorCellId |-> c.pickAction.actorCellId,
               type |-> c.pickAction.type,
               championId |-> c.args.championId,
               completed |-> TRUE]]

PatchSkin(c) ==
    [method |-> "patch", path |-> "/lol-champ-select/v1/session/my-selection",
     body |-> [selectedSkinId |-> c.args.skinId]]

PatchChroma(c) ==
    [method |-> "patch", path |-> "/lol-champ-select/v1/session/my-selection",
     body |-> [selectedSkinId |-> c.args.chromaId]]

Issue(c, w, pc) == [c EXCEPT !.writes = Append(@, w), !.pc = pc]

\* A variant of the catch for the check of C4: the cause's text is left out
\* of the message.
SelCatchNoCauseText(c, error) ==
    [c EXCEPT !.pc = "failed",
              !.error = [message |-> <<"Failed to select skin: ", "unknown error">>,
                         cause |-> error]]

\* The catch of selectSkin (line 614): wrap and rethrow.
SelCatch(c, error) ==
    [c EXCEPT !.pc = "failed",
              !.error = [message |-> <<"Failed to select skin: ", GetErrorMessage(error)>>,
                         cause |-> error]]

\* A variant for the check of C5: the skin is patched as soon as a session
\* exists, before the pick action is resolved.
SelOnSessionSkinFirst(c, reply) ==
    LET got == GetChampSelectSession(reply)
    IN  IF ~got.ok THEN SelCatch(c, got.error)
        ELSE IF got.value = Null
        THEN SelCatch(c, PlainError("Not in champion select"))
        ELSE LET found == GetLocalPlayerPickAction(got.value)
                 c1 == Issue(c, PatchSkin(c), "skin")
             IN  IF ~found.ok THEN SelCatch(c1, found.error)
                 ELSE IF found.value = Null
                 THEN SelCatch(c1, PlainError("Pick action not found for local player"))
                 ELSE [c1 EXCEPT !.pickAction = found.value]

\* selectSkin from the reply to its session request up to its next await.
SelOnSession(c, reply) ==
    LET got == GetChampSelectSession(reply)
    IN  IF ~got.ok THEN SelCatch(c, got.error)
        ELSE IF got.value = Null
        THEN SelCatch(c, PlainError("Not in champion select"))
        ELSE LET found == GetLocalPlayerPickAction(got.value)
             IN  IF ~found.ok THEN SelCatch(c, found.error)
                 ELSE IF found.value = Null
                 THEN SelCatch(c, PlainError("Pick action not found for local player"))
                 ELSE LET c1 == [c EXCEPT !.pickAction = found.value]
                      IN  Issue(c1, PatchAction(c1), "action")

\* A variant for the check of C3: with a chroma, the skin patch is skipped
\* and only the chroma is patched.
SelOnWrittenChromaOnly(c) ==
    LET c1 == [c EXCEPT !.outcomes = Append(@, [ok |-> TRUE])]
    IN  CASE c.pc = "action" ->
                IF c.args.chromaId # NoChroma
                THEN Issue(c1, PatchChroma(c1), "chroma")
                ELSE Issue(c1, PatchSkin(c1), "skin")
          [] c.pc = "skin" -> [c1 EXCEPT !.pc = "done"]
          [] c.pc = "chroma" -> [c1 EXCEPT !.pc = "done"]

\* A variant for the check of C35: with a chroma, the chroma is patched
\* before the skin.
SelOnWrittenChromaFirst(c) ==
    LET c1 == [c EXCEPT !.outcomes = Append(@, [ok |-> TRUE])]
    IN  CASE c.pc = "action" ->
                IF c.args.chromaId # NoChroma
                THEN Issue(c1, PatchChroma(c1), "chroma")
                ELSE Issue(c1, PatchSkin(c1), "skin")
          [] c.pc = "chroma" -> Issue(c1, PatchSkin(c1), "skin")
          [] c.pc = "skin" -> [c1 EXCEPT !.pc = "done"]

\* selectSkin after a write request returned, up to its next await or its
\* return.
SelOnWritten(c) ==
    LET c1 == [c EXCEPT !.outcomes = Append(@, [ok |-> TRUE])]
    IN  CASE c.pc = "action" -> Issue(c1, PatchSkin(c1), "skin")
          [] c.pc = "skin" ->
                IF c.args.chromaId # NoChroma
                THEN Issue(c1, PatchChroma(c1), "chroma")
                ELSE [c1 EXCEPT !.pc = "done"]
          [] c.pc = "chroma" -> [c1 EXCEPT !.pc = "done"]

\* selectSkin after a write request threw.
SelOnWriteError(c, error) ==
    SelCatch([c EXCEPT !.outcomes = Append(@, [ok |-> FALSE, error |-> error])], error)

SelIdle ==
    [pc |-> "idle", args |-> Null, pickAction |-> Null, writes |-> <<>>,
     outcomes |-> <<>>, error |-> Null]

\* ---- actions

\* selectSkin(championId, skinId, chromaId) up to the session request.
SelectSkinCall ==
    /\ selPc = "idle"
    /\ \E args \in SelArgs : SetSel([SelIdle EXCEPT !.pc = "session", !.args = args])
    /\ sessionSeen' = "nothing"
    /\ pickSeen' = Null

SessionReply ==
    /\ selPc = "session"
    /\ \E reply \in SessionReplies :
          /\ SetSel(SelOnSession(Sel, reply))
          /\ sessionSeen' = Classify(reply)
          /\ pickSeen' = LocalPickOf(reply)

WriteReturns ==
    /\ selPc \in {"action", "skin", "chroma"}
    /\ SetSel(SelOnWritten(Sel))
    /\ UNCHANGED <<sessionSeen, pickSeen>>

WriteThrows ==
    /\ selPc \in {"action", "skin", "chroma"}
    /\ \E e \in Thrown : SetSel(SelOnWriteError(Sel, e))
    /\ UNCHANGED <<sessionSeen, pickSeen>>

\* The caller has the result; the next call starts from idle.
SelectSkinSettled ==
    /\ selPc \in {"done", "failed"}
    /\ SetSel(SelIdle)
    /\ sessionSeen' = "nothing"
    /\ pickSeen' = Null

SelInit ==
    /\ selPc = "idle"
    /\ selArgs = Null
    /\ pickAction = Null
    /\ writes = <<>>
    /\ outcomes = <<>>
    /\ selError = Null
    /\ sessionSeen = "nothing"
    /\ pickSeen = Null

SelNext ==
    \/ SelectSkinCall
    \/ SessionReply
    \/ WriteReturns
    \/ WriteThrows
    \/ SelectSkinSettled

\* ---- selectSkin calls that overlap at their awaits (lcu-client.ts:559-616)

ApplyCalls == {1, 2}

\* The session both calls read: one where the local player has a pick
\* action, or none at all.
ApplyReplies ==
    {r \in SessionReplies :
        /\ Classify(r) \in {"hasPickAction", "absent"}
        /\ (r.ok /\ r.value # Null) => Len(Flat(r.value.actions.items)) = 1}

\* PATCH /lol-champ-select/v1/session/my-selection at the game client: the
\* body's selectedSkinId replaces the stored one; a write to an action
\* leaves it alone.
RemoteApply(current, w) ==
    IF w.path = "/lol-champ-select/v1/session/my-selection"
    THEN w.body.selectedSkinId ELSE current

RemoteLog(log, p, w) ==
    IF w.path = "/lol-champ-select/v1/session/my-selection"
    THEN Append(log, <<p, w.body.selectedSkinId>>) ELSE log

ApplyOthers == <<supVars, routeVars, startVars, selVars, skinVars, sessVars, nameVars, pollVars, uiVars, srvVars>>

\* selectSkin(championId, skinId, chromaId) of one caller up to the session
\* request.
ApplyCall(p) ==
    /\ applyCalls[p].pc = "idle"
    /\ \E args \in SelArgs :
          applyCalls' = [applyCalls EXCEPT ![p] =
                            [SelIdle EXCEPT !.pc = "session", !.args = args]]
    /\ UNCHANGED <<selectedSkinId, selections, ApplyOthers>>

ApplySessionReply(p) ==
    /\ applyCalls[p].pc = "session"
    /\ \E reply \in ApplyReplies :
          applyCalls' = [applyCalls EXCEPT ![p] = SelOnSession(applyCalls[p], reply)]
    /\ UNCHANGED <<selectedSkinId, selections, ApplyOthers>>

\* The game client applies the write a call awaits and answers; the call
\* runs on to its next await or to its return.
ApplyWriteReturns(p) ==
    LET c == applyCalls[p]
        w == c.writes[Len(c.writes)]
    IN  /\ c.pc \in {"action", "skin", "chroma"}
        /\ selectedSkinId' = RemoteApply(selectedSkinId, w)
        /\ selections' = RemoteLog(selections, p, w)
        /\ applyCalls' = [applyCalls EXCEPT ![p] = SelOnWritten(c)]
        /\ UNCHANGED ApplyOthers

\* The write a call awaits fails.
ApplyWriteThrows(p) ==
    /\ applyCalls[p].pc \in {"action", "skin", "chroma"}
    /\ \E e \in Thrown :
          applyCalls' = [applyCalls EXCEPT ![p] = SelOnWriteError(applyCalls[p], e)]
    /\ UNCHANGED <<selectedSkinId, selections, ApplyOthers>>

ApplyInit ==
    /\ applyCalls = [p \in ApplyCalls |-> SelIdle]
    /\ selectedSkinId = 0      \* nothing selected yet in this champion select
    /\ selections = <<>>

ApplyNext ==
    \/ \E p \in ApplyCalls : ApplyCall(p)
    \/ \E p \in ApplyCalls : ApplySessionReply(p)
    \/ \E p \in ApplyCalls : ApplyWriteReturns(p)
    \/ \E p \in ApplyCalls : ApplyWriteThrows(p)


\* ------------------------------------------------------------------------
\* Polling connector: credentials and polling (lcu-connector.ts:57-258)
\* ------------------------------------------------------------------------

Platforms == {"win32", "darwin", "linux"}

\* What a capture of a regular expression gives: no match, or the text of
\* the group, which `*` allows to be empty.
NoMatch == [matched |-> FALSE]
Match(text) == [matched |-> TRUE, text |-> text]

PortCaptures == {NoMatch, Match(""), Match("51000"), Match("52000")}
TokenCaptures == {NoMatch, Match(""), Match("tokA")}

\* What execSync gives: it throws (the command failed, or grep found no
\* line), or it returns an output that is empty or in which the two
\* expressions capture what they capture.
ProcessLists ==
    {Throws(PlainError("Command failed")), Returns([empty |-> TRUE])}
        \cup {Returns([empty |-> FALSE, port |-> p, token |-> t]) :
                p \in PortCaptures, t \in TokenCaptures}

\* A variant of findClientCredentials for the check of C25: a capture is
\* refused only when there is no match.
FindClientCredentialsAcceptsEmpty(os, outcome) ==
    IF os \notin {"win32", "darwin"} THEN Returns(Null)
    ELSE IF ~outcome.ok THEN Returns(Null)
    ELSE IF outcome.value.empty THEN Returns(Null)
    ELSE IF ~outcome.value.port.matched \/ ~outcome.value.token.matched
    THEN Returns(Null)
    ELSE Returns([port |-> outcome.value.port.text, token |-> outcome.value.token.text])

\* findClientCredentials: null on another platform, when the command throws
\* (the catch), when the output is empty and when a capture is missing or
\* empty (`!port || !token`); else the port and the token.
FindClientCredentials(os, outcome) ==
    IF os \notin {"win32", "darwin"} THEN Returns(Null)
    ELSE IF ~outcome.ok THEN Returns(Null)
    ELSE IF outcome.value.empty THEN Returns(Null)
    ELSE IF \/ ~outcome.value.port.matched
            \/ outcome.value.port.text = ""
            \/ ~outcome.value.token.matched
            \/ outcome.value.token.text = ""
    THEN Returns(Null)
    ELSE Returns([port |-> outcome.value.port.text, token |-> outcome.value.token.text])

\* The record of the connector and of the step, so that each operation is a
\* function on it.
Poll ==
    [credentials |-> credentials, reconnectCallback |-> pollReconnectCallback,
     pollInterval |-> pollInterval, invoked |-> <<>>, returned |-> Null,
     finds |-> <<>>]

SetPoll(s) ==
    /\ credentials' = s.credentials
    /\ pollReconnectCallback' = s.reconnectCallback
    /\ pollInterval' = s.pollInterval
    /\ pollInvoked' = s.invoked
    /\ pollReturned' = s.returned
    /\ finds' = s.finds
    /\ UNCHANGED <<platform, supVars, applyVars, routeVars, startVars, selVars, skinVars, sessVars, nameVars, uiVars,
                   srvVars>>

\* this.findClientCredentials() inside an operation: the call is noted.
Find(s, os, outcome) ==
    [s EXCEPT !.finds = Append(@, [os |-> os, outcome |-> outcome,
                                   completion |-> FindClientCredentials(os, outcome)])]

Found(s) == s.finds[Len(s.finds)].completion

\* connect(): the connector after it and how it ended.
PollConnect(s, os, outcome) ==
    LET s1 == Find(s, os, outcome)
        got == Found(s1)
    IN  IF ~got.ok
        THEN [s1 EXCEPT !.returned =
                 Throws(PlainError(<<"Failed to connect to League Client: ",
                                     GetErrorMessage(got.error)>>))]
        ELSE IF got.value = Null
        THEN [s1 EXCEPT !.returned =
                 Throws(PlainError(<<"Failed to connect to League Client: ",
                                     "League Client is not running. Please start the client first.">>))]
        ELSE [s1 EXCEPT !.credentials = [port |-> got.value.port,
                                         password |-> got.value.token,
                                         protocol |-> "https"],
                        !.returned = Returns(TRUE)]

\* if (this.reconnectCallback) this.reconnectCallback()
PollNotify(s) ==
    IF s.reconnectCallback # 0
    THEN [s EXCEPT !.invoked = Append(@, s.reconnectCallback)]
    ELSE s

\* startPolling and startPollingForInitialConnection: the interval that ran
\* is cleared, the new one runs.
StartPolling(s) == [s EXCEPT !.pollInterval = "restart"]
StartPollingForInitialConnection(s) == [s EXCEPT !.pollInterval = "initial"]

\* stopPolling
PollStopPolling(s) == [s EXCEPT !.pollInterval = "none"]

\* connectWithRetry(onReconnect)
PollConnectWithRetry(s, cb, os, outcome) ==
    LET c == PollConnect([s EXCEPT !.reconnectCallback = cb], os, outcome)
    IN  IF c.returned.ok
        THEN [StartPolling(c) EXCEPT !.returned = Returns(TRUE)]
        ELSE [StartPollingForInitialConnection(c) EXCEPT !.returned = Returns(FALSE)]

\* The callback of the interval of startPolling (lines 185-208). The command
\* runs once for the check and once more inside connect().
PollCheck(s, os, first, second) ==
    LET s1 == Find(s, os, first)
        new == Found(s1).value
    IN  IF new = Null THEN PollStopPolling(s1)
        ELSE IF \/ s1.credentials = Null
                \/ new.port # s1.credentials.port
                \/ new.token # s1.credentials.password
        THEN LET c == PollConnect(s1, os, second)
             IN  IF c.returned.ok THEN PollNotify(c) ELSE c
        ELSE s1

\* The callback of the interval of startPollingForInitialConnection (lines
\* 226-241).
PollInitial(s, os, first, second) ==
    LET s1 == Find(s, os, first)
    IN  IF Found(s1).value = Null THEN s1
        ELSE LET c == PollConnect(s1, os, second)
             IN  IF c.returned.ok THEN StartPolling(PollNotify(c)) ELSE c

\* ---- actions

PollCallbacks == {0, 1}

PollConnectWithRetryCall ==
    /\ \E cb \in PollCallbacks :
          SetPoll(PollConnectWithRetry(Poll, cb, platform, processList))
    /\ pollStep' = "connectWithRetry"
    /\ pollWatched' = TRUE
    /\ UNCHANGED processList

\* An interval fires. Between the two runs of the command the process list
\* may change.
PollTick ==
    /\ pollInterval # "none"
    /\ \E second \in ProcessLists :
          /\ SetPoll(IF pollInterval = "restart"
                     THEN PollCheck(Poll, platform, processList, second)
                     ELSE PollInitial(Poll, platform, processList, second))
          /\ processList' = IF Len(finds') = 2 THEN second ELSE processList
    /\ pollStep' = "tick"
    /\ UNCHANGED pollWatched

\* The caller stops the polling.
PollStopPollingCall ==
    /\ SetPoll(PollStopPolling(Poll))
    /\ pollStep' = "stopPolling"
    /\ pollWatched' = FALSE
    /\ UNCHANGED processList

\* The game client starts, exits or restarts.
ProcessListChanges ==
    /\ processList' \in ProcessLists \ {processList}
    /\ pollStep' = "processList"
    /\ pollInvoked' = <<>>
    /\ pollReturned' = Null
    /\ finds' = <<>>
    /\ UNCHANGED <<credentials, pollReconnectCallback, pollInterval, platform,
                   pollWatched, supVars, applyVars, routeVars, startVars, selVars, skinVars, sessVars, nameVars, uiVars,
                   srvVars>>

PollInit ==
    /\ credentials = Null
    /\ pollReconnectCallback = 0
    /\ pollInterval = "none"
    /\ pollWatched = FALSE
    /\ pollStep = "init"
    /\ pollInvoked = <<>>
    /\ pollReturned = Null
    /\ finds = <<>>

\* The environment of the specifications that are not about the polling
\* connector.
PollIdle ==
    /\ PollInit
    /\ platform = "win32"
    /\ processList = Throws(PlainError("Command failed"))

PollNext ==
    \/ PollConnectWithRetryCall
    \/ PollTick
    \/ PollStopPollingCall
    \/ ProcessListChanges

\* ------------------------------------------------------------------------
\* Selection writer of the polling connector: selectSkin
\* (lcu-connector.ts:445-483)
\* ------------------------------------------------------------------------

\* get(endpoint) of the polling connector (lines 168-178): a 404 is null.
PollGet(reply) ==
    IF reply.ok THEN Returns(reply.value)
    ELSE IF reply.error.cls = "LCUError" /\ reply.error.statusCode = 404
    THEN Returns(Null)
    ELSE Throws(reply.error)

\* The write requests of the polling connector (lines 456-459, 462-475).
PollPatchAction(c, payload) ==
    [method |-> "patch", path |-> "/lol-champ-select/v1/session/actions/{id}",
     id |-> payload.localPlayerCellId,
     body |-> [championId |-> c.args.championId, completed |-> TRUE]]

PollPatchSkin(c) ==
    [method |-> "patch", path |-> "/lol-champ-select/v1/session/my-selection",
     body |-> IF c.args.chromaId # NoChroma
              THEN [selectedSkinId |-> c.args.skinId, wardSkinId |-> -1]
              ELSE [selectedSkinId |-> c.args.skinId]]

\* The catch of the polling selectSkin (line 481): wrap and rethrow, without
\* a cause.
PollSelCatch(c, error) ==
    [c EXCEPT !.pc = "failed",
              !.error = [message |-> <<"Failed to select skin: ", GetErrorMessage(error)>>,
                         cause |-> Null]]

\* The polling selectSkin from the reply to its session request up to its
\* next await.
PollSelOnSession(c, reply) ==
    LET got == PollGet(reply)
    IN  IF ~got.ok THEN PollSelCatch(c, got.error)
        ELSE IF got.value = Null
        THEN PollSelCatch(c, PlainError("Not in champion select"))
        ELSE Issue(c, PollPatchAction(c, got.value), "action")

\* The polling selectSkin after a write request returned.
PollSelOnWritten(c) ==
    LET c1 == [c EXCEPT !.outcomes = Append(@, [ok |-> TRUE])]
    IN  CASE c.pc = "action" -> Issue(c1, PollPatchSkin(c1), "skin")
          [] c.pc = "skin" ->
                IF c.args.chromaId # NoChroma
                THEN Issue(c1, PatchChroma(c1), "chroma")
                ELSE [c1 EXCEPT !.pc = "done"]
          [] c.pc = "chroma" -> [c1 EXCEPT !.pc = "done"]

\* The polling selectSkin after a write request threw.
PollSelOnWriteError(c, error) ==
    PollSelCatch([c EXCEPT !.outcomes = Append(@, [ok |-> FALSE, error |-> error])],
                 error)

\* ---- actions

PollSelectSkinCall ==
    /\ selPc = "idle"
    /\ \E args \in SelArgs : SetSel([SelIdle EXCEPT !.pc = "session", !.args = args])
    /\ sessionSeen' = "nothing"
    /\ pickSeen' = Null

PollSessionReply ==
    /\ selPc = "session"
    /\ \E reply \in SessionReplies :
          /\ SetSel(PollSelOnSession(Sel, reply))
          /\ sessionSeen' = Classify(reply)
          /\ pickSeen' = LocalPickOf(reply)

PollWriteReturns ==
    /\ selPc \in {"action", "skin", "chroma"}
    /\ SetSel(PollSelOnWritten(Sel))
    /\ UNCHANGED <<sessionSeen, pickSeen>>

PollWriteThrows ==
    /\ selPc \in {"action", "skin", "chroma"}
    /\ \E e \in Thrown : SetSel(PollSelOnWriteError(Sel, e))
    /\ UNCHANGED <<sessionSeen, pickSeen>>

PollSelectSkinSettled ==
    /\ selPc \in {"done", "failed"}
    /\ SetSel(SelIdle)
    /\ sessionSeen' = "nothing"
    /\ pickSeen' = Null

PollSelNext ==
    \/ PollSelectSkinCall
    \/ PollSessionReply
    \/ PollWriteReturns
    \/ PollWriteThrows
    \/ PollSelectSkinSettled

\* ------------------------------------------------------------------------
\* Properties of the selection writer
\* ------------------------------------------------------------------------

ActionsPath == "/lol-champ-select/v1/session/actions/{id}"
MySelectionPath == "/lol-champ-select/v1/session/my-selection"

ChromaRequested == selArgs # Null /\ selArgs.chromaId # NoChroma

\* The i-th write the call issued is the i-th write of the forward sequence:
\* pick action, skin, chroma.
ForwardWrite(i) ==
    /\ writes[i].method = "patch"
    /\ i = 1 => writes[i].path = ActionsPath
    /\ i = 2 => /\ writes[i].path = MySelectionPath
                /\ writes[i].body = [selectedSkinId |-> selArgs.skinId]
    /\ i = 3 => /\ ChromaRequested
                /\ writes[i].path = MySelectionPath
                /\ writes[i].body = [selectedSkinId |-> selArgs.chromaId]

\* C3: the writes are issued in the order pick action, skin, chroma, each
\* only once the previous one has returned; a call that returns has issued
\* exactly 3 writes with a chroma and exactly 2 without.
WritesInOrder ==
    /\ Len(writes) <= 3
    /\ \A i \in 1..Len(writes) : ForwardWrite(i)
    /\ Len(outcomes) \in {Len(writes) - 1, Len(writes)}
    /\ \A i \in 1..(Len(writes) - 1) : outcomes[i].ok
    /\ selPc \in {"action", "skin", "chroma"} => Len(outcomes) = Len(writes) - 1
    /\ selPc = "done" =>
          /\ Len(writes) = IF ChromaRequested THEN 3 ELSE 2
          /\ Len(outcomes) = Len(writes)
          /\ \A i \in 1..Len(outcomes) : outcomes[i].ok

\* C3 witness: a call with a chroma returned after its three writes.
WritesInOrderWitness ==
    /\ selPc = "done"
    /\ ChromaRequested
    /\ Len(writes) = 3
    /\ writes[3].body.selectedSkinId = selArgs.chromaId
    /\ writes[2].body.selectedSkinId = selArgs.skinId

\* The message text of a thrown value.
CauseText(e) == IF "message" \in DOMAIN e THEN e.message ELSE e.value

\* C4: a write that throws is the last write of the call (none is issued
\* after it, neither a later step nor a rollback), the call fails, and the
\* error it throws starts with 'Failed to select skin' and contains the
\* message text of the cause.
FailureAbortsAndWraps ==
    /\ \A i \in 1..Len(outcomes) :
          ~outcomes[i].ok =>
              /\ i = Len(writes)
              /\ selPc = "failed"
              /\ selError.cause = outcomes[i].error
    /\ selPc = "failed" =>
          /\ Head(selError.message) = "Failed to select skin: "
          /\ \E i \in 2..Len(selError.message) :
                selError.message[i] = CauseText(selError.cause)
          /\ Len(outcomes) = Len(writes)
          /\ \A i \in 1..Len(writes) :
                /\ writes[i].method = "patch"
                /\ writes[i].path = IF i = 1 THEN ActionsPath ELSE MySelectionPath
          /\ Len(writes) > 0 => ~outcomes[Len(writes)].ok

\* C4 witness: with a chroma requested the skin patch threw after the pick
\* action patch had been applied; the chroma patch was never issued.
FailureAbortsAndWrapsWitness ==
    /\ selPc = "failed"
    /\ ChromaRequested
    /\ Len(writes) = 2
    /\ outcomes[1].ok
    /\ ~outcomes[2].ok
    /\ selError.message = <<"Failed to select skin: ", "Internal Server Error">>

\* C5: when the remote API reports no session, or the session has no pick
\* action of the local player, the call throws and has issued no write.
PreconditionsPrecedeWrites ==
    /\ sessionSeen = "absent" =>
          /\ selPc = "failed"
          /\ writes = <<>>
          /\ CauseText(selError.cause) = "Not in champion select"
    /\ sessionSeen = "noPickAction" =>
          /\ selPc = "failed"
          /\ writes = <<>>
          /\ CauseText(selError.cause) = "Pick action not found for local player"
    /\ writes # <<>> => sessionSeen = "hasPickAction"

\* C5 witness: the session had actions, none of them a pick of the local
\* player, and the call failed.
PreconditionsPrecedeWritesWitness ==
    /\ sessionSeen = "noPickAction"
    /\ selPc = "failed"
    /\ writes = <<>>

\* ------------------------------------------------------------------------
\* Skin resolver: champion names (lcu-client.ts:343-395)
\* ------------------------------------------------------------------------

\* The champion list of the metadata provider, as the key -> name pairs the
\* loop of getChampionNameMap stores. Champion 2 is not in the list.
ProviderChampionMap == {<<1, "Annie">>}
ProviderVersion == "15.1.1"

\* How the provider answers the two fetches: the version list fails, is
\* empty or holds versions; the champion list fails or arrives.
ProviderOutcomes == [versions : {"fail", "empty", "ok"}, champions : {"fail", "ok"}]

NoMap == [isNull |-> TRUE]
MapOf(pairs) == [isNull |-> FALSE, pairs |-> pairs]
NoVersion == ""

\* The caches as one record.
Caches == [championMap |-> championMap, ddragonVersion |-> ddragonVersion]

\* getLatestDdragonVersion after its fetch (lines 379-385): the version it
\* stores. An empty version list and a failed fetch both give "latest".
OnVersions(k, outcome) ==
    IF outcome = "ok"
    THEN [k EXCEPT !.ddragonVersion = ProviderVersion]
    ELSE [k EXCEPT !.ddragonVersion = "latest"]

\* getChampionNameMap after its fetch of the champion list (lines 355-366):
\* the map it returns and the caches after it.
OnChampions(k, outcome) ==
    IF outcome = "ok"
    THEN [map |-> ProviderChampionMap,
          caches |-> [k EXCEPT !.championMap = MapOf(ProviderChampionMap)]]
    ELSE [map |-> {}, caches |-> k]

\* getLatestDdragonVersion: the caches after it (its value is the version).
GetLatestDdragonVersion(k, provider) ==
    IF k.ddragonVersion # NoVersion THEN k
    ELSE OnVersions(k, provider.versions)

\* getChampionNameMap: the map it returns and the caches after it.
GetChampionNameMap(k, provider) ==
    IF ~k.championMap.isNull
    THEN [map |-> k.championMap.pairs, caches |-> k]
    ELSE OnChampions(GetLatestDdragonVersion(k, provider), provider.champions)

\* `Champion${championId}`
Placeholder(championId) == <<"Champion", championId>>

\* A variant for the check of C23: the name is read off the map without the
\* `|| Champion${championId}` of line 394.
GetChampionNameByIdNoPlaceholder(k, championId, provider) ==
    LET got == GetChampionNameMap(k, provider)
    IN  [name |-> IF \E pair \in got.map : pair[1] = championId
                  THEN <<(CHOOSE pair \in got.map : pair[1] = championId)[2]>>
                  ELSE <<"undefined">>,
         caches |-> got.caches]

\* getChampionNameById: the name it returns and the caches after it. A name
\* is the text pieces of the string.
GetChampionNameById(k, championId, provider) ==
    LET got == GetChampionNameMap(k, provider)
    IN  [name |-> IF \E pair \in got.map : pair[1] = championId
                  THEN <<(CHOOSE pair \in got.map : pair[1] = championId)[2]>>
                  ELSE Placeholder(championId),
         caches |-> got.caches]

\* The fetches that a getChampionNameById call makes with caches k, and how
\* the provider answered them.
NotAsked == [versions |-> "notAsked", champions |-> "notAsked"]

Consulted(k, provider) ==
    [versions |-> IF k.championMap.isNull /\ k.ddragonVersion = NoVersion
                  THEN provider.versions ELSE "notAsked",
     champions |-> IF k.championMap.isNull THEN provider.champions ELSE "notAsked"]

\* The answers of the call so far, with those of one more lookup.
AlsoConsulted(seen, k, provider) ==
    LET now == Consulted(k, provider)
    IN  [versions |-> IF now.versions = "notAsked" THEN seen.versions ELSE now.versions,
         champions |-> IF now.champions = "notAsked" THEN seen.champions
                       ELSE now.champions]

\* ---- getChampionNameMap calls that overlap at their awaits

NameCalls == 1..NumNameCalls

\* What a getChampionNameMap call leaves alone.
NameOthers ==
    <<supVars, applyVars, routeVars, startVars, selVars, sessVars, pollVars, uiVars, srvVars, skPc, skChampionId, list, champion,
      championName, skResult, skSource, carouselSeen, providerSeen>>

\* getChampionNameMap up to its first await, or to its return from the cache.
NameMapCall(p) ==
    /\ namePc[p] = "idle"
    /\ IF ~championMap.isNull
       THEN /\ namePc' = [namePc EXCEPT ![p] = "done"]
            /\ nameResult' = [nameResult EXCEPT ![p] = championMap.pairs]
            /\ UNCHANGED nameVersion
       ELSE IF ddragonVersion # NoVersion
       THEN /\ namePc' = [namePc EXCEPT ![p] = "champions"]
            /\ nameVersion' = [nameVersion EXCEPT ![p] = ddragonVersion]
            /\ UNCHANGED nameResult
       ELSE /\ namePc' = [namePc EXCEPT ![p] = "versions"]
            /\ UNCHANGED <<nameVersion, nameResult>>
    /\ UNCHANGED <<championMap, ddragonVersion, versionsFetch, NameOthers>>

\* The fetch of the version list of a call settles.
VersionsReply(p) ==
    /\ namePc[p] = "versions"
    /\ \E outcome \in {"fail", "empty", "ok"} :
          LET k == OnVersions(Caches, outcome)
          IN  /\ ddragonVersion' = k.ddragonVersion
              /\ nameVersion' = [nameVersion EXCEPT ![p] = k.ddragonVersion]
              /\ versionsFetch' = outcome
    /\ namePc' = [namePc EXCEPT ![p] = "champions"]
    /\ UNCHANGED <<championMap, nameResult, NameOthers>>

\* The fetch of the champion list of a call settles.
ChampionsReply(p) ==
    /\ namePc[p] = "champions"
    /\ \E outcome \in {"fail", "ok"} :
          LET got == OnChampions(Caches, outcome)
          IN  /\ championMap' = got.caches.championMap
              /\ nameResult' = [nameResult EXCEPT ![p] = got.map]
    /\ namePc' = [namePc EXCEPT ![p] = "done"]
    /\ UNCHANGED <<ddragonVersion, nameVersion, versionsFetch, NameOthers>>

\* The caller has the map; the next call starts from idle.
NameMapSettled(p) ==
    /\ namePc[p] = "done"
    /\ namePc' = [namePc EXCEPT ![p] = "idle"]
    /\ nameVersion' = [nameVersion EXCEPT ![p] = NoVersion]
    /\ nameResult' = [nameResult EXCEPT ![p] = {}]
    /\ UNCHANGED <<championMap, ddragonVersion, versionsFetch, NameOthers>>

NameInit ==
    /\ namePc = [p \in NameCalls |-> "idle"]
    /\ nameVersion = [p \in NameCalls |-> NoVersion]
    /\ nameResult = [p \in NameCalls |-> {}]
    /\ versionsFetch = "none"

NameNext ==
    \/ \E p \in NameCalls : NameMapCall(p)
    \/ \E p \in NameCalls : VersionsReply(p)
    \/ \E p \in NameCalls : ChampionsReply(p)
    \/ \E p \in NameCalls : NameMapSettled(p)

\* ------------------------------------------------------------------------
\* Skin resolver: the data of the remote API
\* ------------------------------------------------------------------------

\* ownership: { owned } or absent
Ownerships == {[owned |-> TRUE], [owned |-> FALSE], Null}

\* !!x.ownership?.owned
IsOwned(x) == x.ownership # Null /\ x.ownership.owned

\* A child entry of a carousel skin: a chroma carries a chromaPreviewPath.
ChildKinds == [chromaPreviewPath : BOOLEAN, ownership : {[owned |-> TRUE], [owned |-> FALSE]}]

\* The carousel listings with at most n entries in all, without their ids.
RECURSIVE CarouselShapes(_)
CarouselShapes(n) ==
    {<<>>} \cup
    UNION {{<<[championId |-> c, ownership |-> o, childSkins |-> kids]>> \o rest :
                c \in ChampionIds, o \in Ownerships,
                kids \in [1..k -> ChildKinds], rest \in CarouselShapes(n - 1 - k)} :
           k \in 0..(n - 1)}

\* Skin ids are championId * 1000 + skin number; the entries of a listing
\* have distinct ids.
CarouselWithIds(shape) ==
    [i \in 1..Len(shape) |->
        [id |-> shape[i].championId * 1000 + i,
         championId |-> shape[i].championId,
         ownership |-> shape[i].ownership,
         childSkins |->
            [j \in 1..Len(shape[i].childSkins) |->
                [id |-> shape[i].championId * 1000 + 10 * i + j,
                 chromaPreviewPath |-> shape[i].childSkins[j].chromaPreviewPath,
                 ownership |-> shape[i].childSkins[j].ownership]]]]

CarouselListings == {CarouselWithIds(shape) : shape \in CarouselShapes(MaxCarouselNodes)}

\* What the carousel request returns: the listing itself, an object that
\* wraps it in data, an object without a data array, or nothing.
CarouselValues ==
    {[shape |-> "array", items |-> l] : l \in CarouselListings}
        \cup {[shape |-> "wrapped", items |-> l] : l \in CarouselListings}
        \cup {[shape |-> "object"], [shape |-> "null"]}

CarouselReplies ==
    {[ok |-> TRUE, value |-> v] : v \in CarouselValues}
        \cup {[ok |-> FALSE, error |-> e] : e \in Thrown}

\* The champion's inventory data with at most n entries in all.
InventoryChromaKinds == [ownership : Ownerships]

RECURSIVE InventoryShapes(_)
InventoryShapes(n) ==
    {<<>>} \cup
    UNION {{<<[owned |-> o, chromas |-> kids]>> \o rest :
                o \in BOOLEAN,
                kids \in [1..k -> InventoryChromaKinds], rest \in InventoryShapes(n - 1 - k)} :
           k \in 0..(n - 1)}

InventoryWithIds(shape, championId) ==
    [i \in 1..Len(shape) |->
        [id |-> championId * 1000 + (i - 1),
         ownership |-> [owned |-> shape[i].owned],
         chromas |->
            [j \in 1..Len(shape[i].chromas) |->
                [id |-> championId * 1000 + 10 * i + j,
                 ownership |-> shape[i].chromas[j].ownership]]]]

\* What getChampion returns for a champion: null, data without skins, or
\* data with skins.
ChampionValues(championId) ==
    {[isNull |-> TRUE], [isNull |-> FALSE, hasSkins |-> FALSE]}
        \cup {[isNull |-> FALSE, hasSkins |-> TRUE,
               skins |-> InventoryWithIds(shape, championId)] :
              shape \in InventoryShapes(MaxInventoryNodes)}

ChampionReplies(championId) ==
    {[ok |-> TRUE, value |-> v] : v \in ChampionValues(championId)}
        \cup {[ok |-> FALSE, error |-> e] : e \in Thrown}

\* ------------------------------------------------------------------------
\* Skin resolver: getChampionSkins (lcu-client.ts:400-546)
\* ------------------------------------------------------------------------

\* The image URLs, as the parts that vary.
LoadingUrl(name, num) == [art |-> "ddragon/cdn/img/champion/loading", name |-> name, num |-> num]
SplashUrl(name, num) == [art |-> "ddragon/cdn/img/champion/splash", name |-> name, num |-> num]
ChromaUrl(championId, chromaId) ==
    [art |-> "communitydragon/champion-chroma-images", championId |-> championId,
     chromaId |-> chromaId]

\* (carouselResp as { data })?.data ?? carouselResp, as a list or not a list
Unwrap(value) ==
    IF value.shape \in {"array", "wrapped"}
    THEN [isArray |-> TRUE, items |-> value.items]
    ELSE [isArray |-> FALSE]

\* A variant for the check of C24: the art of a child that is not a chroma
\* has the index of its parent skin.
CarouselChromasParentIndex(skin, championId, name) ==
    LET HasPreview(c) == c.chromaPreviewPath
        OwnedChroma(c) == IsOwned(c)
        chromaChildren == SelectSeq(SelectSeq(skin.childSkins, HasPreview), OwnedChroma)
        chromaMapped ==
            [i \in 1..Len(chromaChildren) |->
                [id |-> chromaChildren[i].id,
                 owned |-> IsOwned(chromaChildren[i]),
                 imageUrl |-> ChromaUrl(championId, chromaChildren[i].id),
                 chromaNum |-> chromaChildren[i].id]]
        OwnedNonChroma(c) == ~c.chromaPreviewPath /\ IsOwned(c)
        nonChromaChildren == SelectSeq(skin.childSkins, OwnedNonChroma)
        nonChromaAsChromas ==
            [i \in 1..Len(nonChromaChildren) |->
                [id |-> nonChromaChildren[i].id,
                 owned |-> IsOwned(nonChromaChildren[i]),
                 imageUrl |-> SplashUrl(name, skin.id % 1000),
                 chromaNum |-> nonChromaChildren[i].id]]
    IN  chromaMapped \o nonChromaAsChromas

\* The chromas of one carousel skin (lines 429-467).
CarouselChromas(skin, championId, name) ==
    LET HasPreview(c) == c.chromaPreviewPath
        OwnedChroma(c) == IsOwned(c)
        chromaChildren == SelectSeq(SelectSeq(skin.childSkins, HasPreview), OwnedChroma)
        chromaMapped ==
            [i \in 1..Len(chromaChildren) |->
                [id |-> chromaChildren[i].id,
                 owned |-> IsOwned(chromaChildren[i]),
                 imageUrl |-> ChromaUrl(championId, chromaChildren[i].id),
                 chromaNum |-> chromaChildren[i].id]]
        OwnedNonChroma(c) == ~c.chromaPreviewPath /\ IsOwned(c)
        nonChromaChildren == SelectSeq(skin.childSkins, OwnedNonChroma)
        nonChromaAsChromas ==
            [i \in 1..Len(nonChromaChildren) |->
                [id |-> nonChromaChildren[i].id,
                 owned |-> IsOwned(nonChromaChildren[i]),
                 imageUrl |-> SplashUrl(name, nonChromaChildren[i].id % 1000),
                 chromaNum |-> nonChromaChildren[i].id]]
    IN  chromaMapped \o nonChromaAsChromas

\* A variant of the reduce body for the check of C9: a skin is included only
\* when it is owned itself.
CarouselStepOwnedOnly(acc, skin, championId, name) ==
    LET skinOwned == IsOwned(skin)
        chromas == CarouselChromas(skin, championId, name)
        skinNum == skin.id % 1000
    IN  IF skinOwned
        THEN Append(acc,
                [id |-> skin.id,
                 ownership |-> IF skin.ownership # Null THEN skin.ownership
                               ELSE [owned |-> skinOwned],
                 chromas |-> chromas,
                 hasOwnedChromas |-> Len(chromas) > 0,
                 loadingUrl |-> LoadingUrl(name, skinNum),
                 splashUrl |-> SplashUrl(name, skinNum)])
        ELSE acc

\* The body of the reduce over the carousel skins of the champion (lines
\* 428-485).
CarouselStep(acc, skin, championId, name) ==
    LET skinOwned == IsOwned(skin)
        chromas == CarouselChromas(skin, championId, name)
        skinNum == skin.id % 1000
    IN  IF skinOwned \/ Len(chromas) > 0
        THEN Append(acc,
                [id |-> skin.id,
                 ownership |-> IF skin.ownership # Null THEN skin.ownership
                               ELSE [owned |-> skinOwned],
                 chromas |-> chromas,
                 hasOwnedChromas |-> Len(chromas) > 0,
                 loadingUrl |-> LoadingUrl(name, skinNum),
                 splashUrl |-> SplashUrl(name, skinNum)])
        ELSE acc

RECURSIVE Reduce(_, _, _, _)
Reduce(acc, skins, championId, name) ==
    IF skins = <<>> THEN acc
    ELSE Reduce(CarouselStep(acc, Head(skins), championId, name), Tail(skins),
                championId, name)

\* ownedFromCarousel (lines 426-485)
OwnedFromCarousel(items, championId, name) ==
    LET OfChampion(s) == s.championId = championId
    IN  Reduce(<<>>, SelectSeq(items, OfChampion), championId, name)

\* A variant of the fallback list for the check of C8: the chromas are mapped
\* but not filtered.
OwnedFromInventoryAllChromas(skins, championId, name) ==
    LET OwnedSkin(skin) == skin.ownership.owned
        Chroma(chroma) ==
            [id |-> chroma.id,
             owned |-> IF chroma.ownership # Null THEN chroma.ownership.owned ELSE FALSE,
             imageUrl |-> ChromaUrl(championId, chroma.id),
             chromaNum |-> chroma.id]
        Skin(skin) ==
            LET chromas == [j \in 1..Len(skin.chromas) |-> Chroma(skin.chromas[j])]
            IN  [id |-> skin.id,
                 ownership |-> skin.ownership,
                 chromas |-> chromas,
                 hasOwnedChromas |-> Len(chromas) > 0,
                 loadingUrl |-> LoadingUrl(name, skin.id % 1000),
                 splashUrl |-> SplashUrl(name, skin.id % 1000)]
        owned == SelectSeq(skins, OwnedSkin)
    IN  [i \in 1..Len(owned) |-> Skin(owned[i])]

\* The fallback list (lines 505-545).
OwnedFromInventory(skins, championId, name) ==
    LET OwnedSkin(skin) == skin.ownership.owned
        OwnedChroma(chroma) == chroma.owned
        Chroma(chroma) ==
            [id |-> chroma.id,
             owned |-> IF chroma.ownership # Null THEN chroma.ownership.owned ELSE FALSE,
             imageUrl |-> ChromaUrl(championId, chroma.id),
             chromaNum |-> chroma.id]
        Skin(skin) ==
            LET mapped == [j \in 1..Len(skin.chromas) |-> Chroma(skin.chromas[j])]
                chromas == SelectSeq(mapped, OwnedChroma)
            IN  [id |-> skin.id,
                 ownership |-> skin.ownership,
                 chromas |-> chromas,
                 hasOwnedChromas |-> Len(chromas) > 0,
                 loadingUrl |-> LoadingUrl(name, skin.id % 1000),
                 splashUrl |-> SplashUrl(name, skin.id % 1000)]
        owned == SelectSeq(skins, OwnedSkin)
    IN  [i \in 1..Len(owned) |-> Skin(owned[i])]

\* The record of a call and of the caches, so that each continuation is a
\* function on it.
Sk ==
    [pc |-> skPc, championId |-> skChampionId, list |-> list, champion |-> champion,
     championName |-> championName, result |-> skResult, source |-> skSource,
     caches |-> Caches]

SetSk(r) ==
    /\ skPc' = r.pc
    /\ skChampionId' = r.championId
    /\ list' = r.list
    /\ champion' = r.champion
    /\ championName' = r.championName
    /\ skResult' = r.result
    /\ skSource' = r.source
    /\ championMap' = r.caches.championMap
    /\ ddragonVersion' = r.caches.ddragonVersion
    /\ UNCHANGED <<supVars, applyVars, routeVars, startVars, selVars, sessVars, nameVars, pollVars, uiVars, srvVars>>

NoName == <<>>

\* Leaving the try block: list goes out of scope, getChampion is called.
ToFallback(r) == [r EXCEPT !.pc = "champion", !.list = Null, !.championName = NoName]

\* A variant for the check of C6: no catch around the carousel request, its
\* error ends the call.
SkOnCarouselRethrows(r, reply, provider) ==
    IF ~reply.ok THEN [r EXCEPT !.pc = "threw"]
    ELSE LET l == Unwrap(reply.value)
         IN  IF ~l.isArray THEN ToFallback(r)
             ELSE LET named == GetChampionNameById(r.caches, r.championId, provider)
                      owned == OwnedFromCarousel(l.items, r.championId, named.name)
                      r1 == [r EXCEPT !.caches = named.caches]
                  IN  IF Len(owned) > 0
                      THEN [r1 EXCEPT !.pc = "done", !.list = l, !.championName = named.name,
                                      !.result = owned, !.source = "carousel"]
                      ELSE ToFallback(r1)

\* A variant for the check of C7: the carousel-derived list is returned
\* whenever the carousel answers with a list, also when it is empty.
SkOnCarouselReturnsEmpty(r, reply, provider) ==
    IF ~reply.ok THEN ToFallback(r)
    ELSE LET l == Unwrap(reply.value)
         IN  IF ~l.isArray THEN ToFallback(r)
             ELSE LET named == GetChampionNameById(r.caches, r.championId, provider)
                      owned == OwnedFromCarousel(l.items, r.championId, named.name)
                      r1 == [r EXCEPT !.caches = named.caches]
                  IN  [r1 EXCEPT !.pc = "done", !.list = l, !.championName = named.name,
                                 !.result = owned, !.source = "carousel"]

\* getChampionSkins from the reply to the carousel request up to its return
\* or to the request of getChampion (lines 420-497).
SkOnCarousel(r, reply, provider) ==
    IF ~reply.ok THEN ToFallback(r)
    ELSE LET l == Unwrap(reply.value)
         IN  IF ~l.isArray THEN ToFallback(r)
             ELSE LET named == GetChampionNameById(r.caches, r.championId, provider)
                      owned == OwnedFromCarousel(l.items, r.championId, named.name)
                      r1 == [r EXCEPT !.caches = named.caches]
                  IN  IF Len(owned) > 0
                      THEN [r1 EXCEPT !.pc = "done", !.list = l, !.championName = named.name,
                                      !.result = owned, !.source = "carousel"]
                      ELSE ToFallback(r1)

\* getChampionSkins from the reply to getChampion up to its return (lines
\* 497-545).
SkOnChampion(r, reply, provider) ==
    IF ~reply.ok THEN [r EXCEPT !.pc = "threw", !.champion = reply]
    ELSE IF reply.value.isNull \/ ~reply.value.hasSkins
    THEN [r EXCEPT !.pc = "done", !.champion = reply, !.result = <<>>, !.source = "noData"]
    ELSE LET named == GetChampionNameById(r.caches, r.championId, provider)
         IN  [r EXCEPT !.pc = "done", !.champion = reply, !.championName = named.name,
                       !.caches = named.caches,
                       !.result = OwnedFromInventory(reply.value.skins, r.championId,
                                                     named.name),
                       !.source = "inventory"]

SkIdle(k) ==
    [pc |-> "idle", championId |-> 0, list |-> Null, champion |-> Null,
     championName |-> NoName, result |-> <<>>, source |-> "none", caches |-> k]

\* What a reply to the carousel request says, read off the reply itself.
IncludedEntry(entry, championId) ==
    /\ entry.championId = championId
    /\ \/ entry.ownership = [owned |-> TRUE]
       \/ \E j \in 1..Len(entry.childSkins) :
             entry.childSkins[j].ownership = [owned |-> TRUE]

ClassifyCarousel(reply, championId) ==
    IF ~reply.ok THEN "threw"
    ELSE IF reply.value.shape \notin {"array", "wrapped"} THEN "notAList"
    ELSE LET items == reply.value.items
         IN  IF \A i \in 1..Len(items) : items[i].championId # championId
             THEN "noEntry"
             ELSE IF \E i \in 1..Len(items) : IncludedEntry(items[i], championId)
             THEN "included"
             ELSE "noneIncluded"

\* ---- actions

\* getChampionSkins(championId) up to the carousel request.
GetChampionSkinsCall ==
    /\ skPc = "idle"
    /\ \E c \in ChampionIds :
          SetSk([SkIdle(Caches) EXCEPT !.pc = "carousel", !.championId = c])
    /\ carouselSeen' = "nothing"
    /\ providerSeen' = NotAsked

CarouselReply ==
    /\ skPc = "carousel"
    /\ \E reply \in CarouselReplies, provider \in ProviderOutcomes :
          /\ SetSk(SkOnCarousel(Sk, reply, provider))
          /\ carouselSeen' = ClassifyCarousel(reply, skChampionId)
          /\ providerSeen' = IF reply.ok /\ Unwrap(reply.value).isArray
                             THEN AlsoConsulted(providerSeen, Caches, provider)
                             ELSE providerSeen

ChampionReply ==
    /\ skPc = "champion"
    /\ \E reply \in ChampionReplies(skChampionId), provider \in ProviderOutcomes :
          /\ SetSk(SkOnChampion(Sk, reply, provider))
          /\ providerSeen' = IF /\ reply.ok
                                /\ ~reply.value.isNull
                                /\ reply.value.hasSkins
                             THEN AlsoConsulted(providerSeen, Caches, provider)
                             ELSE providerSeen
    /\ UNCHANGED carouselSeen

\* The caller has the result; the next call starts from idle. The caches stay.
GetChampionSkinsSettled ==
    /\ skPc \in {"done", "threw"}
    /\ SetSk(SkIdle(Caches))
    /\ carouselSeen' = "nothing"
    /\ providerSeen' = NotAsked

SkInit ==
    /\ championMap = NoMap
    /\ ddragonVersion = NoVersion
    /\ skPc = "idle"
    /\ skChampionId = 0
    /\ list = Null
    /\ champion = Null
    /\ championName = NoName
    /\ skResult = <<>>
    /\ skSource = "none"
    /\ carouselSeen = "nothing"
    /\ providerSeen = NotAsked

SkNext ==
    \/ GetChampionSkinsCall
    \/ CarouselReply
    \/ ChampionReply
    \/ GetChampionSkinsSettled

\* ------------------------------------------------------------------------
\* Properties of the skin resolver
\* ------------------------------------------------------------------------

SkEnded == skPc \in {"done", "threw"}

\* The call ended the way the fallback source alone decides: it threw if
\* getChampion threw, else it returned the list derived from the inventory
\* data (empty without data).
InventoryOutcome ==
    /\ champion # Null
    /\ IF ~champion.ok THEN skPc = "threw"
       ELSE /\ skPc = "done"
            /\ skResult =
                 IF champion.value.isNull \/ ~champion.value.hasSkins THEN <<>>
                 ELSE OwnedFromInventory(champion.value.skins, skChampionId, championName)

\* C6: a carousel request that throws and a carousel listing without an entry
\* of the champion end the call the same way: with the outcome of the
\* fallback source.
FallbackSameForThrowAndNoEntry ==
    (SkEnded /\ carouselSeen \in {"threw", "noEntry"}) =>
        /\ skSource # "carousel"
        /\ InventoryOutcome

\* C6 witness: the listing held entries of other champions only and the call
\* returned a skin from the inventory.
FallbackSameForThrowAndNoEntryWitness ==
    /\ skPc = "done"
    /\ carouselSeen = "noEntry"
    /\ skSource = "inventory"
    /\ Len(skResult) > 0

\* C7: the result is the carousel-derived list exactly when the carousel
\* answered with a list that has an included skin of the champion; in every
\* other case the call ends with the outcome of the fallback source.
CarouselUsedIffIncluded ==
    SkEnded =>
        /\ skSource = "carousel" <=> carouselSeen = "included"
        /\ skSource = "carousel" =>
              /\ list # Null
              /\ skResult = OwnedFromCarousel(list.items, skChampionId, championName)
              /\ Len(skResult) > 0
        /\ carouselSeen \in {"threw", "notAList", "noEntry", "noneIncluded"} =>
              InventoryOutcome

\* C7 witness: the listing had entries of the champion, none of them owned
\* or with an owned child, and the call returned the inventory list.
CarouselUsedIffIncludedWitness ==
    /\ skPc = "done"
    /\ carouselSeen = "noneIncluded"
    /\ skSource = "inventory"
    /\ Len(skResult) > 0

\* The entries of the answers that carry an id.
InventorySkin(id) ==
    CHOOSE skin \in {champion.value.skins[i] : i \in 1..Len(champion.value.skins)} :
        skin.id = id
InventoryChroma(skin, id) ==
    CHOOSE chroma \in {skin.chromas[j] : j \in 1..Len(skin.chromas)} : chroma.id = id
CarouselEntry(id) ==
    CHOOSE entry \in {list.items[i] : i \in 1..Len(list.items)} : entry.id = id
CarouselChild(entry, id) ==
    CHOOSE child \in {entry.childSkins[j] : j \in 1..Len(entry.childSkins)} : child.id = id

\* C8: every skin returned from the inventory is a skin the inventory marks
\* owned, and every chroma returned, from either source, is a chroma (child
\* entry) its source marks owned.
NoUnownedLeak ==
    /\ (skPc = "done" /\ skSource = "inventory") =>
          \A i \in 1..Len(skResult) :
              LET skin == InventorySkin(skResult[i].id)
              IN  /\ \E k \in 1..Len(champion.value.skins) :
                        champion.value.skins[k].id = skResult[i].id
                  /\ skin.ownership = [owned |-> TRUE]
                  /\ \A j \in 1..Len(skResult[i].chromas) :
                        /\ \E k \in 1..Len(skin.chromas) :
                              skin.chromas[k].id = skResult[i].chromas[j].id
                        /\ InventoryChroma(skin, skResult[i].chromas[j].id).ownership
                               = [owned |-> TRUE]
                        /\ skResult[i].chromas[j].owned
    /\ (skPc = "done" /\ skSource = "carousel") =>
          \A i \in 1..Len(skResult) :
              LET entry == CarouselEntry(skResult[i].id)
              IN  /\ \E k \in 1..Len(list.items) : list.items[k].id = skResult[i].id
                  /\ \A j \in 1..Len(skResult[i].chromas) :
                        /\ \E k \in 1..Len(entry.childSkins) :
                              entry.childSkins[k].id = skResult[i].chromas[j].id
                        /\ CarouselChild(entry, skResult[i].chromas[j].id).ownership
                               = [owned |-> TRUE]
                        /\ skResult[i].chromas[j].owned

\* C8 witness: the inventory held an owned skin with an owned chroma and a
\* chroma that is not owned, and the skin was returned with one chroma.
NoUnownedLeakWitness ==
    /\ skPc = "done"
    /\ skSource = "inventory"
    /\ \E i \in 1..Len(skResult) :
          /\ Len(skResult[i].chromas) = 1
          /\ Len(InventorySkin(skResult[i].id).chromas) = 2
    /\ Len(skResult) < Len(champion.value.skins)

\* C9: the carousel-derived list holds exactly the entries of the listing
\* that belong to the requested champion and are owned or have an owned
\* child; no entry of another champion is in it.
CarouselInclusion ==
    (skPc = "done" /\ skSource = "carousel") =>
        /\ \A k \in 1..Len(list.items) :
              (\E i \in 1..Len(skResult) : skResult[i].id = list.items[k].id)
                  <=> IncludedEntry(list.items[k], skChampionId)
        /\ \A i \in 1..Len(skResult) :
              /\ \E k \in 1..Len(list.items) : list.items[k].id = skResult[i].id
              /\ CarouselEntry(skResult[i].id).championId = skChampionId
        /\ \A i, j \in 1..Len(skResult) : skResult[i].id = skResult[j].id => i = j

\* C9 witness: a skin that is not owned came back because of its owned child,
\* next to an entry of another champion that did not.
CarouselInclusionWitness ==
    /\ skPc = "done"
    /\ skSource = "carousel"
    /\ \E i \in 1..Len(skResult) :
          /\ ~skResult[i].ownership.owned
          /\ skResult[i].hasOwnedChromas
    /\ \E k \in 1..Len(list.items) :
          /\ list.items[k].championId # skChampionId
          /\ list.items[k].ownership = [owned |-> TRUE]

\* ------------------------------------------------------------------------
\* UI status poll: startStatusMonitor, updateStatus
\* (renderer/client.ts:1198-1202, 598-680)
\* ------------------------------------------------------------------------

Updates == 1..MaxUpdates

UiChampionIds == {0, 1}
SkinLists == {"empty", "baseOnly", "withSkins"}

\* What /api/status answers, as far as updateStatus stores it or branches
\* on it after an await.
StatusData == [inChampSelect : BOOLEAN, selectedChampionId : UiChampionIds,
               lockedIn : BOOLEAN]

NoStatus == [inChampSelect |-> FALSE, selectedChampionId |-> 0, lockedIn |-> FALSE]

\* The record of the UI and of one run, so that each continuation is a
\* function on it.
Ui(r) ==
    [pc |-> updates[r].pc, data |-> updates[r].data,
     favoritesOnlyMode |-> favoritesOnlyMode, currentChampionId |-> currentChampionId,
     currentSkins |-> currentSkins, lockedIn |-> lockedIn,
     focusedChampionId |-> focusedChampionId]

SetUi(r, u) ==
    /\ updates' = [updates EXCEPT ![r] = [pc |-> u.pc, data |-> u.data]]
    /\ currentChampionId' = u.currentChampionId
    /\ currentSkins' = u.currentSkins
    /\ lockedIn' = u.lockedIn
    /\ focusedChampionId' = u.focusedChampionId
    /\ UNCHANGED <<favoritesOnlyMode, supVars, applyVars, routeVars, startVars, selVars, skinVars, sessVars, nameVars,
                   pollVars, srvVars>>

\* The end of a run.
UiDone(u) == [u EXCEPT !.pc = "idle", !.data = NoStatus]

\* updateStatus from the focus test to its end (lines 644-651).
UiFocus(u) ==
    LET u1 == IF /\ u.currentSkins = "withSkins"
                 /\ u.focusedChampionId # u.currentChampionId
              THEN [u EXCEPT !.focusedChampionId = u.currentChampionId]
              ELSE u
    IN  UiDone([u1 EXCEPT !.lockedIn = u.data.lockedIn,
                          !.currentChampionId = u.data.selectedChampionId])

\* updateStatus from the lock-in test (lines 637-651) to its next await or
\* its end.
UiLockIn(u) ==
    IF u.data.lockedIn /\ ~u.lockedIn
    THEN IF u.currentSkins = "empty"
         THEN [u EXCEPT !.pc = "refreshLockIn"]
         ELSE UiFocus(u)
    ELSE UiDone([u EXCEPT !.lockedIn = u.data.lockedIn,
                          !.currentChampionId = u.data.selectedChampionId])

\* updateStatus from the answer of /api/status to its next await or its end
\* (lines 601-660).
UiOnStatus(u, data) ==
    IF data.inChampSelect
    THEN LET u1 == [u EXCEPT !.data = data]
         IN  IF data.selectedChampionId # 0
                /\ u.currentChampionId # data.selectedChampionId
             THEN [u1 EXCEPT !.currentChampionId = data.selectedChampionId,
                             !.focusedChampionId = 0,
                             !.pc = "refreshChampion"]
             ELSE UiLockIn(u1)
    ELSE UiDone([u EXCEPT !.currentChampionId = 0, !.lockedIn = FALSE,
                          !.focusedChampionId = 0])

\* The catch of updateStatus (lines 675-679).
UiCatch(u) == UiDone(u)

\* updateStatus after an await of refreshSkins, sleep or autoSelectRandomSkin
\* settled; skins is the list that refreshSkins left.
UiOnSettled(u, skins) ==
    CASE u.pc = "refreshChampion" ->
            IF u.favoritesOnlyMode
            THEN [u EXCEPT !.currentSkins = skins, !.pc = "sleep"]
            ELSE UiLockIn([u EXCEPT !.currentSkins = skins])
      [] u.pc = "sleep" -> [u EXCEPT !.pc = "autoSelect"]
      [] u.pc = "autoSelect" -> UiLockIn([u EXCEPT !.currentSkins = skins])
      [] u.pc = "refreshLockIn" -> UiFocus([u EXCEPT !.currentSkins = skins])

\* ---- actions

\* The first idle run: the one that the next updateStatus call is.
NextUpdate == CHOOSE r \in Updates : updates[r].pc = "idle" /\
                                      \A q \in Updates : updates[q].pc = "idle" => r <= q

\* updateStatus() up to its fetch.
UpdateStatus(u) == [u EXCEPT !.pc = "fetch"]

\* The timeout of the first check fires (line 1200).
FirstStatusCheck ==
    /\ firstCheck
    /\ \E r \in Updates : updates[r].pc = "idle"
    /\ SetUi(NextUpdate, UpdateStatus(Ui(NextUpdate)))
    /\ firstCheck' = FALSE

\* The interval fires (line 1201).
StatusTick ==
    /\ \E r \in Updates : updates[r].pc = "idle"
    /\ SetUi(NextUpdate, UpdateStatus(Ui(NextUpdate)))
    /\ UNCHANGED firstCheck

\* /api/status answers.
StatusReply ==
    /\ \E r \in Updates, data \in StatusData :
          /\ updates[r].pc = "fetch"
          /\ SetUi(r, UiOnStatus(Ui(r), data))
    /\ UNCHANGED firstCheck

\* The fetch, or an await after it, throws.
StatusFails ==
    /\ \E r \in Updates :
          /\ updates[r].pc # "idle"
          /\ SetUi(r, UiCatch(Ui(r)))
    /\ UNCHANGED firstCheck

\* refreshSkins, sleep or autoSelectRandomSkin settles.
AwaitSettles ==
    /\ \E r \in Updates :
          /\ updates[r].pc \in {"refreshChampion", "sleep", "autoSelect", "refreshLockIn"}
          /\ \E skins \in IF updates[r].pc = "sleep" THEN {currentSkins} ELSE SkinLists :
                SetUi(r, UiOnSettled(Ui(r), skins))
    /\ UNCHANGED firstCheck

UiInit ==
    /\ currentChampionId = 0
    /\ currentSkins = "empty"
    /\ lockedIn = FALSE
    /\ focusedChampionId = 0
    /\ firstCheck = TRUE
    /\ updates = [r \in Updates |-> [pc |-> "idle", data |-> NoStatus]]

UiIdle == UiInit /\ favoritesOnlyMode = FALSE

UiNext ==
    \/ FirstStatusCheck
    \/ StatusTick
    \/ StatusReply
    \/ StatusFails
    \/ AwaitSettles

\* ------------------------------------------------------------------------
\* Server: initializeLCU, the listen callback of start(), GET /api/status
\* (main/server.ts:694-721, 735-768, 416-450)
\* ------------------------------------------------------------------------

\* Flow 0 is the listen callback of start(), the others are the requests.
Startup == 0
Requests == 1..NumRequests
Flows == {Startup} \cup Requests

\* The record of the server and of one flow, so that each continuation is a
\* function on it.
Srv(f) ==
    [pc |-> flows[f].pc, used |-> flows[f].used, lcu |-> lcu,
     clientConnected |-> clientConnected, created |-> created]

SetSrv(f, s) ==
    /\ flows' = [flows EXCEPT ![f] = [pc |-> s.pc, used |-> s.used]]
    /\ lcu' = s.lcu
    /\ clientConnected' = s.clientConnected
    /\ created' = s.created
    /\ UNCHANGED <<supVars, applyVars, routeVars, startVars, selVars, skinVars, sessVars, nameVars, pollVars, uiVars>>

\* A call on this.lcu: the instance is noted.
Use(s) == [s EXCEPT !.used = @ \cup {s.lcu}]

\* After initializeLCU returned: the isConnected test of the caller (lines
\* 422 and 751); in a request this.lcu may be null.
SrvAfterInit(s) ==
    IF s.lcu = 0 THEN [s EXCEPT !.pc = "done"]
    ELSE [Use(s) EXCEPT !.pc = "isConnected"]

\* A variant of initializeLCU for the check of C30: the instance is
\* constructed without the test of this.lcu.
InitializeLCUUnguarded(s) ==
    LET s1 == [s EXCEPT !.created = @ + 1, !.lcu = s.created + 1]
    IN  [Use(s1) EXCEPT !.pc = "connectWithRetry"]

\* initializeLCU up to its first await, or to its return (lines 695-712).
InitializeLCU(s) ==
    IF s.lcu = 0
    THEN LET s1 == [s EXCEPT !.created = @ + 1, !.lcu = s.created + 1]
         IN  [Use(s1) EXCEPT !.pc = "connectWithRetry"]
    ELSE IF ~s.clientConnected
    THEN [Use(s) EXCEPT !.pc = "recheck"]
    ELSE SrvAfterInit(s)

\* The catch of initializeLCU (lines 716-720).
InitializeLCUCatch(s) == SrvAfterInit([s EXCEPT !.clientConnected = FALSE])

\* initializeLCU after one of its awaits returned value.
InitializeLCUOnSettled(s, value) ==
    CASE s.pc = "connectWithRetry" -> [Use(s) EXCEPT !.pc = "initIsConnected"]
      [] s.pc = "initIsConnected" -> SrvAfterInit([s EXCEPT !.clientConnected = value])
      [] s.pc = "recheck" ->
            SrvAfterInit(IF value THEN [s EXCEPT !.clientConnected = TRUE] ELSE s)

\* The handler of GET /api/status up to its first await (lines 417-422).
StatusRoute(s) ==
    IF s.lcu = 0 THEN InitializeLCU(s) ELSE SrvAfterInit(s)

\* The caller after its isConnected test and its reads (lines 422-450,
\* 751-761).
SrvOnSettled(s, value) ==
    CASE s.pc = "isConnected" ->
            IF value /\ s.lcu # 0 THEN [Use(s) EXCEPT !.pc = "reads"]
            ELSE [s EXCEPT !.pc = "done"]
      [] s.pc = "reads" -> [s EXCEPT !.pc = "done"]

\* The catch of the handler of GET /api/status (lines 450-454).
StatusRouteCatch(s) == [s EXCEPT !.clientConnected = FALSE, !.pc = "done"]

\* ---- actions

\* The server listens: the listen callback calls initializeLCU (line 749).
StartupInitializes ==
    /\ flows[Startup].pc = "idle"
    /\ SetSrv(Startup, InitializeLCU(Srv(Startup)))

\* A GET /api/status request arrives.
StatusRequest ==
    \E r \in Requests :
        /\ flows[r].pc = "idle"
        /\ SetSrv(r, StatusRoute([Srv(r) EXCEPT !.used = {}]))

\* An await of initializeLCU returns.
InitAwaitReturns ==
    \E f \in Flows, value \in BOOLEAN :
        /\ flows[f].pc \in {"connectWithRetry", "initIsConnected", "recheck"}
        /\ SetSrv(f, InitializeLCUOnSettled(Srv(f), value))

\* An await of initializeLCU throws.
InitAwaitThrows ==
    \E f \in Flows :
        /\ flows[f].pc \in {"connectWithRetry", "initIsConnected", "recheck"}
        /\ SetSrv(f, InitializeLCUCatch(Srv(f)))

\* An await of a request throws.
RequestAwaitThrows ==
    \E r \in Requests :
        /\ flows[r].pc \in {"isConnected", "reads"}
        /\ SetSrv(r, StatusRouteCatch(Srv(r)))

\* An await of the caller returns.
FlowAwaitSettles ==
    \E f \in Flows, value \in BOOLEAN :
        /\ flows[f].pc \in {"isConnected", "reads"}
        /\ SetSrv(f, SrvOnSettled(Srv(f), value))

\* The response is sent; the next request of the client starts from idle.
StatusResponds ==
    \E r \in Requests :
        /\ flows[r].pc = "done"
        /\ SetSrv(r, [Srv(r) EXCEPT !.pc = "idle"])

SrvInit ==
    /\ lcu = 0
    /\ clientConnected = FALSE
    /\ created = 0
    /\ flows = [f \in Flows |-> [pc |-> "idle", used |-> {}]]

SrvNext ==
    \/ StartupInitializes
    \/ StatusRequest
    \/ InitAwaitReturns
    \/ InitAwaitThrows
    \/ RequestAwaitThrows
    \/ FlowAwaitSettles
    \/ StatusResponds

\* ---- POST /api/select-skin (server.ts:482-503)

\* req.body: an id that is missing (or 0, or null) fails the test of line
\* 490 and is written 0 here.
RouteBodies ==
    [championId : ChampionIds \cup {0}, skinId : SelSkinIds \cup {0},
     chromaId : SelChromaIds \cup {NoChroma}]

\* The record of a request with the field of the server it reads.
Rt ==
    [pc |-> routePc, body |-> routeBody, reported |-> routeReported,
     status |-> routeStatus, calls |-> routeCalls, lcu |-> lcu]

SetRt(t) ==
    /\ routePc' = t.pc
    /\ routeBody' = t.body
    /\ routeReported' = t.reported
    /\ routeStatus' = t.status
    /\ routeCalls' = t.calls
    /\ UNCHANGED <<supVars, applyVars, startVars, selVars, skinVars, sessVars, nameVars,
                   pollVars, uiVars, clientConnected, created, flows>>

\* respondError(res, status, message) and res.json(...)
Respond(t, status) == [t EXCEPT !.status = status, !.pc = "done"]

\* The handler up to its first await (lines 483-486).
SelectSkinRoute(t, body) ==
    LET t1 == [t EXCEPT !.body = body, !.status = 0, !.calls = <<>>,
                        !.reported = "none"]
    IN  IF t1.lcu = 0
        THEN Respond([t1 EXCEPT !.reported = "noConnector"], 503)
        ELSE [t1 EXCEPT !.pc = "isConnected"]

\* A variant for the check of C38: the ids of the body are not tested.
SelectSkinRouteOnConnectedNoIdCheck(t, value) ==
    IF ~value THEN Respond([t EXCEPT !.reported = "false"], 503)
    ELSE LET t1 == [t EXCEPT !.reported = "true"]
         IN  IF t1.lcu = 0 THEN Respond(t1, 500)
             ELSE [t1 EXCEPT !.pc = "selectSkin",
                             !.calls = Append(@, [championId |-> t1.body.championId,
                                                  skinId |-> t1.body.skinId,
                                                  chromaId |-> t1.body.chromaId])]

\* The handler after isConnected() returned value (lines 484-494): this.lcu
\* is read again at line 494, and calling selectSkin of null throws into
\* the catch.
SelectSkinRouteOnConnected(t, value) ==
    IF ~value THEN Respond([t EXCEPT !.reported = "false"], 503)
    ELSE LET t1 == [t EXCEPT !.reported = "true"]
         IN  IF t1.body.championId = 0 \/ t1.body.skinId = 0
             THEN Respond(t1, 400)
             ELSE IF t1.lcu = 0 THEN Respond(t1, 500)
             ELSE [t1 EXCEPT !.pc = "selectSkin",
                             !.calls = Append(@, [championId |-> t1.body.championId,
                                                  skinId |-> t1.body.skinId,
                                                  chromaId |-> t1.body.chromaId])]

\* selectSkin returned (lines 495-498) or threw (lines 499-502).
SelectSkinRouteOnSelected(t) == Respond(t, 200)
SelectSkinRouteCatch(t) == Respond(t, 500)

\* ---- actions

SelectSkinRequest ==
    /\ routePc = "idle"
    /\ \E body \in RouteBodies : SetRt(SelectSkinRoute(Rt, body))
    /\ UNCHANGED lcu

RouteIsConnectedReturns ==
    /\ routePc = "isConnected"
    /\ \E value \in BOOLEAN : SetRt(SelectSkinRouteOnConnected(Rt, value))
    /\ UNCHANGED lcu

RouteSelectSkinReturns ==
    /\ routePc = "selectSkin"
    /\ SetRt(SelectSkinRouteOnSelected(Rt))
    /\ UNCHANGED lcu

RouteSelectSkinThrows ==
    /\ routePc = "selectSkin"
    /\ SetRt(SelectSkinRouteCatch(Rt))
    /\ UNCHANGED lcu

\* The response is sent; the next request starts from idle.
RouteResponds ==
    /\ routePc = "done"
    /\ SetRt([Rt EXCEPT !.pc = "idle"])
    /\ UNCHANGED lcu

\* shutdown() drops the connector (lines 797-804) while a request may be at
\* an await.
RouteShutdown ==
    /\ lcu # 0
    /\ lcu' = 0
    /\ UNCHANGED <<supVars, applyVars, routeVars, startVars, selVars, skinVars, sessVars,
                   nameVars, pollVars, uiVars, clientConnected, created, flows>>

RouteInit ==
    /\ routePc = "idle"
    /\ routeBody = [championId |-> 0, skinId |-> 0, chromaId |-> NoChroma]
    /\ routeReported = "none"
    /\ routeStatus = 0
    /\ routeCalls = <<>>

RouteNext ==
    \/ SelectSkinRequest
    \/ RouteIsConnectedReturns
    \/ RouteSelectSkinReturns
    \/ RouteSelectSkinThrows
    \/ RouteResponds
    \/ RouteShutdown

\* ---- SkinSelectorServer.start and shutdown (server.ts:723-778, 793-820)

StartCalls == 1..NumStarts

\* config.port
StartPorts == {3000, 8080}

\* The fields start() reads and writes, with the record of the call.
Sv(c) ==
    [server |-> server, serverStarting |-> serverStarting, listening |-> listening,
     boundPort |-> boundPort, listens |-> listens, call |-> starts[c]]

StartOthers ==
    <<supVars, applyVars, routeVars, selVars, skinVars, sessVars, nameVars, pollVars,
      uiVars, srvVars>>

SetSv(c, v) ==
    /\ server' = v.server
    /\ serverStarting' = v.serverStarting
    /\ listening' = v.listening
    /\ boundPort' = v.boundPort
    /\ listens' = v.listens
    /\ starts' = [starts EXCEPT ![c] = v.call]
    /\ UNCHANGED StartOthers

StartIdle == [pc |-> "idle", port |-> 0, result |-> Null]

\* The ServerState a call returns; a call that throws has the error.
ServerState(port, srv) == [port |-> port, server |-> srv]

\* start(config) up to its return or to the promise it returns (lines
\* 723-735, 772-777). this.server.address() is null until the server is
\* bound, and reading port of null throws.
Start(v, c, port) ==
    IF v.server # 0
    THEN IF v.listening
         THEN [v EXCEPT !.call = [pc |-> "returned", port |-> port,
                                  result |-> ServerState(v.boundPort, v.server)]]
         ELSE [v EXCEPT !.call = [pc |-> "threw", port |-> port,
                                  result |-> TypeError("port")]]
    ELSE IF v.serverStarting # 0
    THEN [v EXCEPT !.call = [pc |-> "shared", port |-> port, result |-> Null]]
    ELSE [v EXCEPT !.listens = @ + 1,
                   !.server = v.listens + 1,
                   !.serverStarting = c,
                   !.call = [pc |-> "listen", port |-> port, result |-> Null]]

\* The listen callback up to its await of initializeLCU (lines 737-749).
OnListening(v) ==
    [v EXCEPT !.listening = TRUE, !.boundPort = v.call.port,
              !.call.pc = "initializing"]

\* The listen callback after its awaits (lines 763-767): the promise
\* settles.
OnInitialized(v) ==
    IF v.server = 0
    THEN [v EXCEPT !.call.pc = "threw",
                   !.call.result = PlainError("Server failed to start")]
    ELSE [v EXCEPT !.call.pc = "returned",
                   !.call.result = ServerState(v.call.port, v.server)]

\* currentServer.on("error", ...) (lines 771-774)
OnListenError(v) ==
    [v EXCEPT !.serverStarting = 0, !.call.pc = "threw",
              !.call.result = PlainError("listen EADDRINUSE")]

\* ---- actions

StartCall(c) ==
    /\ starts[c].pc = "idle"
    /\ \E port \in StartPorts :
          LET v == Start(Sv(c), c, port)
          IN  /\ v.listens <= MaxListens
              /\ SetSv(c, v)
    /\ UNCHANGED <<closing, undisturbed>>

\* The http server is bound and runs the listen callback.
Listening(c) ==
    /\ starts[c].pc = "listen"
    /\ ~closing
    /\ SetSv(c, OnListening(Sv(c)))
    /\ UNCHANGED <<closing, undisturbed>>

\* The http server cannot bind.
ListenError(c) ==
    /\ starts[c].pc = "listen"
    /\ SetSv(c, OnListenError(Sv(c)))
    /\ undisturbed' = FALSE
    /\ UNCHANGED closing

\* initializeLCU and the reads of the listen callback are over.
StartupCompletes(c) ==
    /\ starts[c].pc = "initializing"
    /\ SetSv(c, OnInitialized(Sv(c)))
    /\ UNCHANGED <<closing, undisturbed>>

\* The caller has the result of its call.
StartSettled(c) ==
    /\ starts[c].pc \in {"returned", "threw"}
    /\ starts' = [starts EXCEPT ![c] = StartIdle]
    /\ UNCHANGED <<server, serverStarting, listening, closing, boundPort, listens,
                   undisturbed, StartOthers>>

\* shutdown() up to the promise of server.close (lines 807-818): address()
\* is null from the call of close on.
ShutdownCall ==
    /\ server # 0
    /\ listening
    /\ ~closing
    /\ closing' = TRUE
    /\ listening' = FALSE
    /\ boundPort' = 0
    /\ undisturbed' = FALSE
    /\ UNCHANGED <<server, serverStarting, listens, starts, StartOthers>>

\* The callback of server.close (lines 809-817).
ShutdownCloses ==
    /\ closing
    /\ closing' = FALSE
    /\ server' = 0
    /\ serverStarting' = 0
    /\ UNCHANGED <<listening, boundPort, listens, starts, undisturbed, StartOthers>>

StartInit ==
    /\ server = 0
    /\ serverStarting = 0
    /\ listening = FALSE
    /\ closing = FALSE
    /\ boundPort = 0
    /\ listens = 0
    /\ starts = [c \in StartCalls |-> StartIdle]
    /\ undisturbed = TRUE

StartNext ==
    \/ \E c \in StartCalls : StartCall(c)
    \/ \E c \in StartCalls : Listening(c)
    \/ \E c \in StartCalls : ListenError(c)
    \/ \E c \in StartCalls : StartupCompletes(c)
    \/ \E c \in StartCalls : StartSettled(c)
    \/ ShutdownCall
    \/ ShutdownCloses

\* ------------------------------------------------------------------------
\* Specifications
\* ------------------------------------------------------------------------

Init ==
    /\ SupInit /\ SelInit /\ SkInit /\ SessInit /\ NameInit /\ PollIdle /\ UiIdle
    /\ SrvInit /\ ApplyInit /\ RouteInit /\ StartInit

Spec == Init /\ [][SupNext]_vars

SpecSelect == Init /\ [][SelNext]_vars

SpecSkins == Init /\ [][SkNext]_vars

SpecNames == Init /\ [][NameNext]_vars

SpecPollSelect == Init /\ [][PollSelNext]_vars

InitPolling ==
    /\ SupInit /\ ~lcuUp /\ SelInit /\ SkInit /\ SessInit /\ NameInit /\ UiIdle
    /\ SrvInit /\ ApplyInit /\ RouteInit /\ StartInit
    /\ PollInit
    /\ platform \in Platforms
    /\ processList \in ProcessLists

SpecPolling == InitPolling /\ [][PollNext]_vars

InitUi ==
    /\ SupInit /\ ~lcuUp /\ SelInit /\ SkInit /\ SessInit /\ NameInit /\ PollIdle
    /\ SrvInit /\ ApplyInit /\ RouteInit /\ StartInit
    /\ UiInit
    /\ favoritesOnlyMode \in BOOLEAN

SpecUi == InitUi /\ [][UiNext]_vars

SpecServer == Init /\ [][SrvNext]_vars

\* A select-skin request, before and after initializeLCU made the connector.
InitRoute ==
    /\ SupInit /\ ~lcuUp /\ SelInit /\ SkInit /\ SessInit /\ NameInit /\ PollIdle /\ UiIdle
    /\ ApplyInit /\ RouteInit /\ StartInit
    /\ lcu \in {0, 1}
    /\ created = lcu
    /\ clientConnected = FALSE
    /\ flows = [f \in Flows |-> [pc |-> "idle", used |-> {}]]

SpecRoute == InitRoute /\ [][RouteNext]_vars

\* start() calls that overlap, and shutdown.
InitQuiet == Init /\ ~lcuUp

SpecStart == InitQuiet /\ [][StartNext]_vars

\* Two selectSkin calls that overlap.
SpecApply == InitQuiet /\ [][ApplyNext]_vars

\* The interval fires as long as it exists.
SpecPollingLive == SpecPolling /\ WF_vars(PollTick)

\* The supervisor with its scheduling: an interval timer that exists keeps
\* firing (setInterval, lines 153-157); an outstanding client.connect()
\* settles (it gives up after MAX_CONNECTION_ATTEMPTS, lines 134-139); and
\* connect calls made again and again while the game client is running do not
\* fail for ever.
SupFairness ==
    /\ WF_vars(TimerTick)
    /\ WF_vars(AttemptSucceeds \/ AttemptFails)
    /\ SF_vars(AttemptSucceeds)

SpecLive == Spec /\ SupFairness

\* The session readers are pure: each is applied to every payload.
InitSession ==
    /\ SupInit /\ ~lcuUp /\ SelInit /\ SkInit /\ NameInit /\ PollIdle /\ UiIdle
    /\ SrvInit /\ ApplyInit /\ RouteInit /\ StartInit
    /\ session \in SessionPayloads
    /\ answer = Null
    /\ SessIdle

SpecSession == InitSession /\ [][SessNext]_vars

\* The two reads are applied to every answer of the remote API.
InitReads ==
    /\ SupInit /\ ~lcuUp /\ SelInit /\ SkInit /\ NameInit /\ PollIdle /\ UiIdle
    /\ SrvInit /\ ApplyInit /\ RouteInit /\ StartInit
    /\ session = Null
    /\ answer \in ReadAnswers
    /\ SessIdle

SpecReads == InitReads /\ [][ReadNext]_vars

\* ------------------------------------------------------------------------
\* Properties of the session readers
\* ------------------------------------------------------------------------

\* The members of the payload's team, none when myTeam is missing.
TeamOf(payload) == IF payload.myTeam = Null THEN <<>> ELSE payload.myTeam.items

\* C15: getSelectedChampionFromSession returns the championId of the (first)
\* myTeam entry whose cellId is localPlayerCellId; it returns null, and does
\* not throw, when the session is absent, myTeam is missing or no entry
\* matches.
SelectedChampionOfLocalCell ==
    method = "getSelectedChampionFromSession" =>
        /\ completion.ok
        /\ IF session = Null THEN completion.value = Null
           ELSE IF \A i \in 1..Len(TeamOf(session)) :
                       TeamOf(session)[i].cellId # session.localPlayerCellId
           THEN completion.value = Null
           ELSE \E i \in 1..Len(TeamOf(session)) :
                   /\ TeamOf(session)[i].cellId = session.localPlayerCellId
                   /\ \A j \in 1..(i - 1) :
                         TeamOf(session)[j].cellId # session.localPlayerCellId
                   /\ completion.value = Some(TeamOf(session)[i].championId)

\* C15 witness: the local player's entry is the second of the team, after an
\* entry of another cell with another champion.
SelectedChampionOfLocalCellWitness ==
    /\ method = "getSelectedChampionFromSession"
    /\ session # Null
    /\ Len(TeamOf(session)) = 2
    /\ TeamOf(session)[1].cellId # session.localPlayerCellId
    /\ TeamOf(session)[2].cellId = session.localPlayerCellId
    /\ TeamOf(session)[1].championId # TeamOf(session)[2].championId
    /\ completion = Returns(Some(TeamOf(session)[2].championId))

\* The payload's actions field is a list of action groups: an array whose
\* elements are arrays of action objects.
ListOfGroups(payload) ==
    /\ IsArray(payload.actions)
    /\ \A g \in 1..Len(payload.actions.items) :
          /\ IsArray(payload.actions.items[g])
          /\ \A a \in 1..Len(payload.actions.items[g].items) :
                IsActionObject(payload.actions.items[g].items[a])

\* The pick actions of the local player in a list of action groups.
LocalPicks(payload) ==
    UNION {{payload.actions.items[g].items[a] :
               a \in {b \in 1..Len(payload.actions.items[g].items) :
                         /\ payload.actions.items[g].items[b].actorCellId
                                = payload.localPlayerCellId
                         /\ payload.actions.items[g].items[b].type = "pick"}} :
           g \in 1..Len(payload.actions.items)}

\* Action x comes before action y in the flattened order of their payload
\* (the ids are the flattened positions).
ComesBefore(x, y) == x.id < y.id

\* C16: for a list of action groups getLocalPlayerPickAction returns the
\* pick action of the local player that comes first in the flattened order,
\* and null when there is none; whatever the payload, an action it returns
\* is a pick of the local player.
LocalPickIsFirstMatch ==
    method = "getLocalPlayerPickAction" =>
        /\ (completion.ok /\ completion.value # Null) =>
              /\ completion.value.actorCellId = session.localPlayerCellId
              /\ completion.value.type = "pick"
        /\ (session # Null /\ ListOfGroups(session)) =>
              /\ completion.ok
              /\ IF LocalPicks(session) = {} THEN completion.value = Null
                 ELSE /\ completion.value \in LocalPicks(session)
                      /\ \A other \in LocalPicks(session) :
                            ~ComesBefore(other, completion.value)

\* C16 witness: two groups, the first holds a ban of the local player, the
\* second the pick that is returned.
LocalPickIsFirstMatchWitness ==
    /\ method = "getLocalPlayerPickAction"
    /\ session # Null
    /\ ListOfGroups(session)
    /\ Len(session.actions.items) = 2
    /\ Len(session.actions.items[1].items) = 1
    /\ session.actions.items[1].items[1].actorCellId = session.localPlayerCellId
    /\ session.actions.items[1].items[1].type = "ban"
    /\ Len(session.actions.items[2].items) = 1
    /\ completion = Returns(session.actions.items[2].items[1])

\* The local pick action of a payload, where it has one: absent for no
\* session and for an actions field that is no array.
HasLocalPickAction(payload) ==
    /\ payload # Null
    /\ IsArray(payload.actions)
    /\ LocalPicks(payload) # {}

LocalPick(payload) ==
    CHOOSE x \in LocalPicks(payload) : \A y \in LocalPicks(payload) : ~ComesBefore(y, x)

\* C17: isLocalPlayerLockedIn returns true exactly when the local pick
\* action exists and carries completed = true; it returns false when the
\* action is absent, and when completed is false or omitted.
LockedInIffCompletedTrue ==
    (/\ method = "isLocalPlayerLockedIn"
     /\ (session = Null \/ ~IsArray(session.actions) \/ ListOfGroups(session))) =>
        /\ completion.ok
        /\ completion.value =
              Some(/\ HasLocalPickAction(session)
                   /\ "completed" \in DOMAIN LocalPick(session)
                   /\ LocalPick(session).completed)

\* C17 witness: the local pick action exists, completed is omitted, and the
\* answer is false.
LockedInIffCompletedTrueWitness ==
    /\ method = "isLocalPlayerLockedIn"
    /\ session # Null
    /\ ListOfGroups(session)
    /\ HasLocalPickAction(session)
    /\ "completed" \notin DOMAIN LocalPick(session)
    /\ completion = Returns(Some(FALSE))

\* C18: for a payload whose actions field is empty, missing or no list of
\* action groups, getLocalPlayerPickAction returns null and
\* isLocalPlayerLockedIn returns false, and neither throws.
MalformedActionsMeanNoPick ==
    (/\ session # Null
     /\ \/ ~ListOfGroups(session)
        \/ session.actions.items = <<>>) =>
        /\ method = "getLocalPlayerPickAction" => completion = Returns(Null)
        /\ method = "isLocalPlayerLockedIn" => completion = Returns(Some(FALSE))

\* The remote API answered the request with 404.
AnsweredNotFound ==
    /\ ~answer.ok
    /\ answer.error.cls = "LCUError"
    /\ answer.error.statusCode = 404

\* C19: getChampSelectSession and getReadyCheck return null when the remote
\* API answers 404; on every other failure of the request they return
\* nothing: they throw the error of the request.
NullOnlyForNotFound ==
    method \in {"getChampSelectSession", "getReadyCheck"} =>
        /\ AnsweredNotFound => completion = Returns(Null)
        /\ (~answer.ok /\ ~AnsweredNotFound) =>
              /\ ~completion.ok
              /\ completion.error = answer.error
        /\ answer.ok => completion = Returns(answer.value)

\* C19 witness: the ready-check request failed with status 500 and
\* getReadyCheck threw.
NullOnlyForNotFoundWitness ==
    /\ method = "getReadyCheck"
    /\ ~answer.ok
    /\ answer.error.cls = "LCUError"
    /\ answer.error.statusCode = 500
    /\ ~completion.ok

\* C28: the first write of selectSkin goes to the action whose id is the id
\* of the pick action of the local player in the session answered, and its
\* body has the requested championId and completed = true.
PickWriteTargetsPickAction ==
    Len(writes) > 0 =>
        /\ writes[1].path = ActionsPath
        /\ pickSeen # Null
        /\ writes[1].id = pickSeen.id
        /\ writes[1].body.championId = selArgs.championId
        /\ writes[1].body.completed = TRUE

\* C29: connectWithRetry called while the retry loop is running stores the
\* new callback and starts neither an attempt nor a timer; it is over in
\* the one step, no connection is awaited.
RunningLoopTakesCallbackOnly ==
    (step = "connectWithRetry" /\ before.isAttemptingConnection) =>
        /\ reconnectCallback = onReconnect
        /\ inFlight = before.inFlight
        /\ activeTimers = before.activeTimers
        /\ connectionAttemptTimer = before.connectionAttemptTimer
        /\ isAttemptingConnection
        /\ lastConnectionState = before.lastConnectionState

\* C29 witness: the loop was running with an attempt under way, the call
\* put another callback in place of the stored one and the attempt is still
\* the only one.
RunningLoopTakesCallbackOnlyWitness ==
    /\ step = "connectWithRetry"
    /\ before.isAttemptingConnection
    /\ before.connectionAttemptTimer \in before.activeTimers
    /\ before.reconnectCallback # 0
    /\ reconnectCallback # before.reconnectCallback
    /\ reconnectCallback = onReconnect
    /\ inFlight = 1
    /\ ~lastConnectionState

\* What the command gave lacks a usable port or a usable token.
LacksField(outcome) ==
    \/ ~outcome.ok
    \/ outcome.value.empty
    \/ outcome.value.port \in {NoMatch, Match("")}
    \/ outcome.value.token \in {NoMatch, Match("")}

\* C25: findClientCredentials never throws; it returns null on a platform
\* other than Windows and macOS, when the command fails, when the process
\* is not in the output and when the port or the token is missing or empty;
\* credentials that it returns, and those that connect() stores, have a
\* non-empty port and a non-empty token.
FindCredentialsTotal ==
    /\ \A i \in 1..Len(finds) :
          /\ finds[i].completion.ok
          /\ finds[i].os \notin {"win32", "darwin"} => finds[i].completion.value = Null
          /\ LacksField(finds[i].outcome) => finds[i].completion.value = Null
          /\ finds[i].completion.value # Null =>
                /\ finds[i].completion.value.port # ""
                /\ finds[i].completion.value.token # ""
    /\ credentials # Null =>
          /\ credentials.port # ""
          /\ credentials.password # ""

\* C25 witness: on macOS the output named a token and an empty port, and
\* the call returned null, so that connect() threw and stored nothing.
FindCredentialsTotalWitness ==
    /\ pollStep = "connectWithRetry"
    /\ platform = "darwin"
    /\ Len(finds) = 1
    /\ finds[1].outcome = Returns([empty |-> FALSE, port |-> Match(""),
                                   token |-> Match("tokA")])
    /\ finds[1].completion = Returns(Null)
    /\ credentials = Null
    /\ pollReturned = Returns(FALSE)

\* The game client runs with credentials that are not those the connector
\* holds from its last connection, while the caller relies on the polling.
RestartPending ==
    /\ pollWatched
    /\ credentials # Null
    /\ LET now == FindClientCredentials(platform, processList).value
       IN  /\ now # Null
           /\ now.port # credentials.port \/ now.token # credentials.password

\* C26: after a successful connection, when the game client is gone and
\* comes back with new credentials, the polling connector connects again
\* (and invokes the callback) without any call of the caller.
PollingReconnects == RestartPending ~> ~RestartPending

\* C27: at most one updateStatus run of the status poll is under way at any
\* time.
OneUpdateInFlight ==
    Cardinality({r \in Updates : updates[r].pc # "idle"}) <= 1

\* C30: the server constructs at most one LCUConnector, whatever the order
\* of the steps of the listen callback and of the /api/status requests, and
\* every call of a flow goes to that instance.
OneConnectorPerServer ==
    /\ created <= 1
    /\ lcu = created
    /\ \A f \in Flows : flows[f].used \subseteq {1}

\* C30 witness: the listen callback and two requests are under way at once,
\* all on the one instance, which a request constructed.
OneConnectorPerServerWitness ==
    /\ created = 1
    /\ flows[Startup].pc = "recheck"
    /\ flows[1].pc = "connectWithRetry"
    /\ flows[2].pc = "isConnected"
    /\ \A f \in {0, 1, 2} : flows[f].used = {1}

\* C31: in every reachable state of the supervisor at most one retry
\* interval timer exists, and it is the one the supervisor holds the handle
\* of: timers do not accumulate across reconnect cycles.
AtMostOneRetryTimer ==
    /\ Cardinality(activeTimers) <= 1
    /\ activeTimers \subseteq {connectionAttemptTimer}

\* A second cycle: the transport drops after a connection that an earlier
\* retry loop made, and the handler schedules the only timer there is.
AtMostOneRetryTimerWitness ==
    /\ step = "disconnected"
    /\ supervised
    /\ before.lastConnectionState
    /\ before.activeTimers = {}
    /\ activeTimers = {connectionAttemptTimer}

\* C32: from disconnect() until the next connectWithRetry the supervisor
\* starts no connection attempt, schedules no retry timer and invokes no
\* callback, whatever arrives late.
QuietAfterDisconnect ==
    stopped =>
        /\ activeTimers = {}
        /\ inFlight <= before.inFlight
        /\ invoked = <<>>

\* C33: whenever the in-flight-attempt guard is set, a retry timer is
\* scheduled or an attempt is in flight.
GuardNeverBlocksLoop ==
    isAttemptingConnection =>
        \/ connectionAttemptTimer \in activeTimers
        \/ inFlight > 0

\* An attempt has failed: the guard stays set, nothing is in flight, and the
\* timer is what will attempt again.
GuardNeverBlocksLoopWitness ==
    /\ step = "attemptFailed"
    /\ isAttemptingConnection
    /\ ~lastConnectionState
    /\ inFlight = 0
    /\ connectionAttemptTimer \in activeTimers

\* C34: in the state right after isConnected() returned, wasLastConnected()
\* is the value it returned.
WasLastConnected == lastConnectionState

LastStateAgreesWithProbe ==
    /\ returned = "true" => WasLastConnected
    /\ returned = "false" => ~WasLastConnected

\* C36: a failed fetch of the version list is not kept as a result: a
\* getChampionNameMap call that starts after it, with no name map cached,
\* fetches the version list again instead of using the sentinel "latest".
FailureNotRemembered ==
    [][\A p \in NameCalls :
          (/\ versionsFetch = "fail"
           /\ championMap.isNull
           /\ namePc[p] = "idle"
           /\ namePc'[p] # "idle") => namePc'[p] = "versions"]_vars

\* The value a selectSkin call writes last: its chroma if it asked for one,
\* else its skin.
FinalStage(args) == IF args.chromaId # NoChroma THEN args.chromaId ELSE args.skinId

\* C35: when two overlapping selectSkin calls have both returned, the game
\* client's selectedSkinId is the final-stage value of one of them; it is
\* the skin of a call that asked for a chroma only when that skin is also
\* the other call's final-stage value.
LastWriteWins ==
    (\A p \in ApplyCalls : applyCalls[p].pc = "done") =>
        /\ \E p \in ApplyCalls : selectedSkinId = FinalStage(applyCalls[p].args)
        /\ \A p \in ApplyCalls :
              (applyCalls[p].args.chromaId # NoChroma
                 /\ selectedSkinId = applyCalls[p].args.skinId) =>
                    \E q \in ApplyCalls \ {p} :
                        selectedSkinId = FinalStage(applyCalls[q].args)

\* Both calls returned, and the game client applied the skin of the call
\* without a chroma between the two writes of the call with one.
LastWriteWinsWitness ==
    /\ \A p \in ApplyCalls : applyCalls[p].pc = "done"
    /\ applyCalls[1].args.chromaId # NoChroma
    /\ applyCalls[2].args.chromaId = NoChroma
    /\ applyCalls[1].args.skinId # applyCalls[2].args.skinId
    /\ selections = <<<<1, applyCalls[1].args.skinId>>,
                      <<2, applyCalls[2].args.skinId>>,
                      <<1, applyCalls[1].args.chromaId>>>>
    /\ selectedSkinId = applyCalls[1].args.chromaId

\* C38: the select-skin route calls selectSkin only when the connector
\* reported connected and both ids are in the body; it answers 503 when
\* there is no connector or it reported not connected, 400 when it
\* reported connected and an id is missing, and made no selectSkin call in
\* either case.
RouteGuardsWrites ==
    /\ routeCalls # <<>> =>
          /\ routeReported = "true"
          /\ routeBody.championId # 0
          /\ routeBody.skinId # 0
          /\ Len(routeCalls) = 1
          /\ routeCalls[1].championId = routeBody.championId
          /\ routeCalls[1].skinId = routeBody.skinId
    /\ (routePc = "done" /\ routeReported \in {"noConnector", "false"}) =>
          (routeStatus = 503 /\ routeCalls = <<>>)
    /\ (routePc = "done" /\ routeReported = "true"
           /\ (routeBody.championId = 0 \/ routeBody.skinId = 0)) =>
          (routeStatus = 400 /\ routeCalls = <<>>)

\* The connector reported connected, the body has a champion and no skin:
\* 400 and no call.
RouteGuardsWritesWitness ==
    /\ routePc = "done"
    /\ routeReported = "true"
    /\ routeBody.championId # 0
    /\ routeBody.skinId = 0
    /\ routeStatus = 400
    /\ routeCalls = <<>>

CachesWrittenOnce ==
    [][/\ ddragonVersion # NoVersion => ddragonVersion' = ddragonVersion
       /\ ~championMap.isNull => championMap' = championMap]_vars

\* The slug of every image URL of the result that is built from a slug: the
\* loading and splash art of a skin and the splash art of a child that is
\* not a chroma.
Slugs(result) ==
    UNION {{result[i].loadingUrl.name, result[i].splashUrl.name}
             \cup {result[i].chromas[j].imageUrl.name :
                     j \in {n \in 1..Len(result[i].chromas) :
                              "name" \in DOMAIN result[i].chromas[n].imageUrl}} :
           i \in 1..Len(result)}

\* C23: when the fetches from the metadata provider fail, getChampionSkins
\* still ends the way the remote API alone decides (it throws only when the
\* request of getChampion throws): the version is "latest", no name map is
\* cached, the name is the placeholder and so is the slug of every image
\* URL of the list it returns.
ProviderDownDegrades ==
    /\ providerSeen.versions = "fail" => ddragonVersion = "latest"
    /\ providerSeen.champions = "fail" =>
          /\ championMap.isNull
          /\ skPc = "threw" => (champion # Null /\ ~champion.ok)
          /\ (skPc = "done" /\ skSource \in {"carousel", "inventory"}) =>
                /\ championName = Placeholder(skChampionId)
                /\ Slugs(skResult) \subseteq {Placeholder(skChampionId)}

\* C23 witness: both fetches failed and the call returned a skin whose art
\* has the placeholder slug.
ProviderDownDegradesWitness ==
    /\ skPc = "done"
    /\ providerSeen = [versions |-> "fail", champions |-> "fail"]
    /\ Len(skResult) > 0
    /\ ddragonVersion = "latest"
    /\ skResult[1].loadingUrl.name = Placeholder(skChampionId)

\* num is what is left of id after the thousands of a champion are taken off.
IndexOf(id, num) ==
    /\ num \in 0..999
    /\ \E q \in ChampionIds : id = 1000 * q + num

\* The children of a returned skin whose art is skin art, not a chroma image.
NonChromaChildren(skin) ==
    {j \in 1..Len(skin.chromas) : "name" \in DOMAIN skin.chromas[j].imageUrl}

\* C24: the index in loadingUrl and splashUrl of every returned skin is the
\* skin id mod 1000 (skin 51005 under the slug Caitlyn has the loading art
\* Caitlyn_5), and the index in the splash art of every child that is not a
\* chroma is the id of the child mod 1000.
IndexIsIdMod1000 ==
    /\ OwnedFromInventory(<<[id |-> 51005, ownership |-> [owned |-> TRUE],
                             chromas |-> <<>>]>>, 51, <<"Caitlyn">>)[1].loadingUrl
          = [art |-> "ddragon/cdn/img/champion/loading", name |-> <<"Caitlyn">>,
             num |-> 5]
    /\ skPc = "done" =>
          \A i \in 1..Len(skResult) :
             /\ IndexOf(skResult[i].id, skResult[i].loadingUrl.num)
             /\ IndexOf(skResult[i].id, skResult[i].splashUrl.num)
             /\ \A j \in NonChromaChildren(skResult[i]) :
                   /\ skResult[i].chromas[j].imageUrl.art
                         = "ddragon/cdn/img/champion/splash"
                   /\ IndexOf(skResult[i].chromas[j].id,
                              skResult[i].chromas[j].imageUrl.num)

\* C24 witness: a returned skin with a child that is not a chroma, whose
\* index is not that of the skin.
IndexIsIdMod1000Witness ==
    /\ skPc = "done"
    /\ skSource = "carousel"
    /\ \E i \in 1..Len(skResult) :
          /\ skResult[i].loadingUrl.num = skResult[i].id - 1000 * skChampionId
          /\ \E j \in NonChromaChildren(skResult[i]) :
                /\ skResult[i].chromas[j].imageUrl.num
                      = skResult[i].chromas[j].id - 1000 * skChampionId
                /\ skResult[i].chromas[j].imageUrl.num # skResult[i].loadingUrl.num

\* C20: getChampionSkins never ends by throwing.
ResolveNeverThrows == skPc # "threw"

\* ------------------------------------------------------------------------
\* Properties of the connection supervisor
\* ------------------------------------------------------------------------

\* C1: with a callback stored, every 'connected' event of the transport (one
\* successful connection instance) invokes the stored callback exactly once,
\* and no other operation or event invokes a callback.
CallbackOncePerConnection ==
    /\ (step = "connected" /\ before.reconnectCallback # 0)
            => invoked = <<before.reconnectCallback>>
    /\ (step = "connected" /\ before.reconnectCallback = 0) => invoked = <<>>
    /\ step # "connected" => invoked = <<>>

\* C1 witness: an attempt of the retry loop succeeded while the last-known
\* state was Disconnected and the retry timer was scheduled, and the stored
\* callback (here the second one) was invoked once.
CallbackOncePerConnectionWitness ==
    /\ step = "connected"
    /\ invoked = <<2>>
    /\ ~before.lastConnectionState
    /\ before.connectionAttemptTimer # 0
    /\ before.isAttemptingConnection

\* C2: at most one client.connect() call of the retry loop is outstanding.
SingleAttemptInFlight == inFlight <= 1

\* C11: right after a 'disconnected' event of the transport the last-known
\* state is Disconnected, the handler has started one more client.connect()
\* whatever the guard was, and the retry interval is scheduled.
DisconnectedStartsAttempt ==
    step = "disconnected" =>
        /\ ~lastConnectionState
        /\ inFlight = before.inFlight + 1
        /\ connectionAttemptTimer \in activeTimers

\* The retry loop is wanted: connectWithRetry was called, disconnect() was
\* not called since, and the last-known state is not Connected.
Retrying == supervised /\ ~lastConnectionState

\* C12: while the retry loop is wanted its interval timer exists, so that a
\* failed attempt is followed by the attempt of the next tick; and with the
\* game client running the supervisor reaches Connected, unless the game
\* client exits or disconnect() is called first.
RetryLoopLive ==
    /\ [](Retrying => connectionAttemptTimer \in activeTimers)
    /\ (step = "attemptFailed" /\ Retrying)
           ~> (step = "tick" \/ ~Retrying)
    /\ (Retrying /\ lcuUp) ~> (lastConnectionState \/ ~supervised \/ ~lcuUp)

\* C12 witness: with the game client running and no attempt outstanding (the
\* earlier ones failed), a tick of the retry interval started the next one.
RetryLoopLiveWitness ==
    /\ step = "tick"
    /\ Retrying
    /\ lcuUp
    /\ before.inFlight = 0
    /\ inFlight = 1

\* The retry loop of the state before the last step was running: its
\* interval timer existed.
WasRunning == before.connectionAttemptTimer \in before.activeTimers

\* C13: when the probe of isConnected() throws or times out, the call
\* returns false and the last-known state is Disconnected; if the retry loop
\* was not running it is started (one attempt, one timer), and if it was
\* running nothing of it changes. At most one interval timer ever exists.
ProbeFailureRestartsOnce ==
    /\ Cardinality(activeTimers) <= 1
    /\ step = "probeFailed" =>
          /\ returned = "false"
          /\ ~lastConnectionState
          /\ connectionAttemptTimer \in activeTimers
          /\ ~WasRunning =>
                /\ inFlight = before.inFlight + 1
                /\ isAttemptingConnection
          /\ WasRunning =>
                /\ inFlight = before.inFlight
                /\ connectionAttemptTimer = before.connectionAttemptTimer
                /\ activeTimers = before.activeTimers
                /\ isAttemptingConnection = before.isAttemptingConnection

\* C13 witness: a probe failed while the retry loop was already running
\* (an earlier probe failure had started it) and the last-known state was
\* Connected.
ProbeFailureRestartsOnceWitness ==
    /\ step = "probeFailed"
    /\ WasRunning
    /\ before.lastConnectionState
    /\ before.inFlight > 0

\* C14: isConnected() returns true only from the step in which its probe
\* request returned a value, and a probe is only sent when the transport
\* reports connected: at its call it returns false when the transport does
\* not report connected and otherwise awaits the probe.
TrueOnlyAfterProbe ==
    /\ returned = "true" => step = "probeTrue"
    /\ step \in {"probeEmpty", "probeFailed"} => returned = "false"
    /\ step = "isConnected" =>
          returned = IF clientIsConnected THEN "pending" ELSE "false"

\* C14 witness: the transport reported connected, the probe returned nothing,
\* and isConnected() returned false while the last-known state was Connected.
TrueOnlyAfterProbeWitness ==
    /\ step = "probeEmpty"
    /\ returned = "false"
    /\ clientIsConnected
    /\ before.lastConnectionState

\* C21: a client.connect() of the retry loop that throws throws nothing to a
\* caller and leaves the retry interval and the guard as they were; neither
\* connectWithRetry nor a tick throws; a one-shot connect() whose
\* client.connect() throws does throw, an error whose message starts with
\* 'Failed to connect to League Client' and holds the message of the cause.
RetryLoopAbsorbsConnectWraps ==
    /\ step = "attemptFailed" =>
          /\ thrown = Null
          /\ connectionAttemptTimer = before.connectionAttemptTimer
          /\ activeTimers = before.activeTimers
          /\ isAttemptingConnection = before.isAttemptingConnection
          /\ Retrying => connectionAttemptTimer \in activeTimers
    /\ step \in {"connectWithRetry", "tick"} => thrown = Null
    /\ step = "connectFailed" =>
          /\ thrown # Null
          /\ Head(thrown.message) = "Failed to connect to League Client: "
          /\ \E i \in 2..Len(thrown.message) :
                thrown.message[i] =
                    (IF "message" \in DOMAIN thrown.cause
                     THEN thrown.cause.message ELSE thrown.cause.value)
    /\ thrown # Null => step = "connectFailed"

\* C21 witness: an attempt of the running retry loop failed and nothing was
\* thrown.
RetryLoopAbsorbsConnectWrapsWitness ==
    /\ step = "attemptFailed"
    /\ Retrying
    /\ thrown = Null
    /\ inFlight = 0
    /\ connectionAttemptTimer \in activeTimers

\* C10: right after disconnect() no interval timer exists, the timer handle
\* and the callback are null and the last-known state is Disconnected; a
\* second disconnect() then changes no field of the supervisor.
DisconnectClearsAndIsIdempotent ==
    step = "disconnect" =>
        /\ activeTimers = {}
        /\ connectionAttemptTimer = 0
        /\ reconnectCallback = 0
        /\ ~lastConnectionState
        /\ DisconnectOp(Sup) = Sup

\* C10 witness: disconnect() ran while a retry timer was scheduled, a callback
\* was stored and the last-known state was Connected.
DisconnectClearsAndIsIdempotentWitness ==
    /\ step = "disconnect"
    /\ before.connectionAttemptTimer # 0
    /\ before.connectionAttemptTimer \in before.activeTimers
    /\ before.reconnectCallback # 0
    /\ before.lastConnectionState

====
